---- MODULE Spec2Model ----
(***************************************************************************)
(* Habit Build: the local replica store (localStorage.ts), the store       *)
(* operations (store.ts), the sync engine (sync.ts), the remote push /     *)
(* pull handlers (functions/api/sync), the day statuses, streaks and       *)
(* statistics of a challenge, and the export / import of the store.       *)
(*                                                                         *)
(* Representation.  An ISO-8601 timestamp is a natural number; the string  *)
(* comparison `a > b` of two timestamps is `a > b` on the numbers.  A      *)
(* missing / empty updatedAt, endDate or failedOnDay (undefined, null or   *)
(* '') is 0, the value every `x || y` in the source treats as absent.      *)
(* `name` stands for the fields the code copies verbatim (name, startDate, *)
(* duration, strictMode, color).  The arrays of the store are sequences.   *)
(***************************************************************************)
EXTENDS Integers, Sequences, FiniteSets, TLC

\* ------------------------------------------------------------------ bounds
\* The last timestamp a clock hands out; every clock read takes the next one.
MaxTime == 3

\* The pushes the user's other devices make.
MaxOtherPushes == 1

\* ------------------------------------------------------------- value sets
ChallengeIds == {"c1", "c2"}
Names == {"a", "b"}
Statuses == {"active", "completed", "failed", "abandoned"}
TerminalStatuses == {"completed", "failed", "abandoned"}
Dates == {"d1"}
Undef == "undef"

\* The goal createChallenge generates for a challenge (one goal per challenge).
GoalIdOf(cid) == IF cid = "c1" THEN "g1" ELSE "g2"
GoalIds == {GoalIdOf(cid) : cid \in ChallengeIds}

\* now.split('T')[0]: the calendar date of a timestamp (two instants per day).
DateOf(t) == (t + 1) \div 2

\* ------------------------------------------------- sequences as JS arrays
RECURSIVE findIndex(_, _, _)
\* Array.prototype.findIndex from position i: the first index whose element
\* satisfies Test, or 0 when there is none (JS: -1).
findIndex(arr, Test(_), i) ==
  IF i > Len(arr) THEN 0
  ELSE IF Test(arr[i]) THEN i
  ELSE findIndex(arr, Test, i + 1)

filter(arr, Test(_)) == SelectSeq(arr, Test)

Range(arr) == {arr[i] : i \in 1..Len(arr)}

RECURSIVE SetToSeq(_)
\* Some enumeration of a finite set (an order the source leaves open).
SetToSeq(S) ==
  IF S = {} THEN <<>>
  ELSE LET x == CHOOSE y \in S : TRUE IN <<x>> \o SetToSeq(S \ {x})

\* ------------------------------------------- localStorage.ts (the cache)
\* The null / undefined a lookup returns when nothing is found.
NoRecord == [none |-> TRUE]

\* getChallenge: data.challenges.find(c => c.id === id) || null.

getChallenge(chs, id) ==
  LET i == findIndex(chs, LAMBDA c : c.id = id, 1)
  IN IF i = 0 THEN NoRecord ELSE chs[i]

\* saveChallenge: replace at findIndex, or push.
saveChallenge(chs, challenge) ==
  LET index == findIndex(chs, LAMBDA c : c.id = challenge.id, 1)
  IN IF index >= 1 THEN [chs EXCEPT ![index] = challenge]
     ELSE Append(chs, challenge)

getEntry(ens, date, goalId) ==
  LET i == findIndex(ens, LAMBDA e : e.date = date /\ e.goalId = goalId, 1)
  IN IF i = 0 THEN NoRecord ELSE ens[i]

\* A mutant of saveEntry: the entry is pushed without looking for its key.
saveEntryPushed(ens, entry) == Append(ens, entry)

\* saveEntry: replace at findIndex by (date, goalId), or push.
saveEntry(ens, entry) ==
  LET index == findIndex(ens, LAMBDA e : e.date = entry.date /\ e.goalId = entry.goalId, 1)
  IN IF index >= 1 THEN [ens EXCEPT ![index] = entry]
     ELSE Append(ens, entry)

\* ------------------------------------------------ sync.ts: conversions
\* toSyncChallenge: `visibleToFriends ?? true`, `updatedAt || new Date()`.
toSyncChallenge(challenge, now) ==
  [id |-> challenge.id,
   name |-> challenge.name,
   status |-> challenge.status,
   endDate |-> challenge.endDate,
   failedOnDay |-> challenge.failedOnDay,
   visibleToFriends |->
     IF challenge.visibleToFriends = Undef THEN "true" ELSE challenge.visibleToFriends,
   goals |-> challenge.goals,
   updatedAt |-> IF challenge.updatedAt # 0 THEN challenge.updatedAt ELSE now]

\* fromSyncChallenge: a field-by-field copy.
fromSyncChallenge(sync) ==
  [id |-> sync.id,
   name |-> sync.name,
   status |-> sync.status,
   endDate |-> sync.endDate,
   failedOnDay |-> sync.failedOnDay,
   visibleToFriends |-> sync.visibleToFriends,
   goals |-> sync.goals,
   updatedAt |-> sync.updatedAt]

\* toSyncEntry: id is `${goalId}-${date}`, `updatedAt || new Date()`.
toSyncEntry(entry, challengeId, now) ==
  [id |-> <<entry.goalId, entry.date>>,
   challengeId |-> challengeId,
   goalId |-> entry.goalId,
   date |-> entry.date,
   completed |-> entry.completed,
   note |-> entry.note,
   updatedAt |-> IF entry.updatedAt # 0 THEN entry.updatedAt ELSE now]

\* A mutant of fromSyncEntry: the completed flag is not copied.
fromSyncEntryUnchecked(sync) ==
  [date |-> sync.date,
   goalId |-> sync.goalId,
   completed |-> FALSE,
   note |-> sync.note,
   updatedAt |-> sync.updatedAt]

\* fromSyncEntry: drops id and challengeId.
fromSyncEntry(sync) ==
  [date |-> sync.date,
   goalId |-> sync.goalId,
   completed |-> sync.completed,
   note |-> sync.note,
   updatedAt |-> sync.updatedAt]

\* ------------------------------------------ sync.ts: performSync, merge
\* The merge test with `>=` for `>`: a tie goes to the server.
serverWinsTies(localRecord, serverRecord) ==
  localRecord = NoRecord \/ serverRecord.updatedAt >= localRecord.updatedAt

\* The merge test without the comparison: every pulled record is saved.
serverAlwaysWins(localRecord, serverRecord) == TRUE

\* The test of the merge loops: no local version, or the server's is newer.
serverWins(localRecord, serverRecord) ==
  localRecord = NoRecord \/ serverRecord.updatedAt > localRecord.updatedAt

RECURSIVE mergeChallenges(_, _, _, _)
\* for (const serverChallenge of serverData.challenges): the lookup is in
\* localChallengeMap, built from the store as it was before the loop.
mergeChallenges(chs, snapshot, serverChallenges, i) ==
  IF i > Len(serverChallenges) THEN chs
  ELSE LET serverChallenge == serverChallenges[i]
           localChallenge == getChallenge(snapshot, serverChallenge.id)
       IN mergeChallenges(
            IF serverWins(localChallenge, serverChallenge)
            THEN saveChallenge(chs, fromSyncChallenge(serverChallenge))
            ELSE chs,
            snapshot, serverChallenges, i + 1)

RECURSIVE mergeEntries(_, _, _, _)
\* for (const serverEntry of serverData.entries), keyed `${goalId}-${date}`.
mergeEntries(ens, snapshot, serverEntries, i) ==
  IF i > Len(serverEntries) THEN ens
  ELSE LET serverEntry == serverEntries[i]
           localEntry == getEntry(snapshot, serverEntry.date, serverEntry.goalId)
       IN mergeEntries(
            IF serverWins(localEntry, serverEntry)
            THEN saveEntry(ens, fromSyncEntry(serverEntry))
            ELSE ens,
            snapshot, serverEntries, i + 1)

\* pulledChallenges / pulledEntries: the number of records the loops saved.
pulledCount(snapshotLookup(_), serverRecords) ==
  Cardinality({i \in 1..Len(serverRecords) :
                 serverWins(snapshotLookup(serverRecords[i]), serverRecords[i])})

\* The filter of the push selection: never synced, or updated after lastSyncAt.
needsPush(record, lastSyncAt) ==
  lastSyncAt = 0 \/ (record.updatedAt # 0 /\ record.updatedAt > lastSyncAt)

\* goalToChallengeMap.get(goalId): a later challenge listing the goal
\* overwrites an earlier one; 0-length result: the goal has no challenge.
goalToChallenge(chs, goalId) ==
  LET owners == {i \in 1..Len(chs) : \E g \in chs[i].goals : g.id = goalId}
  IN IF owners = {} THEN Undef
     ELSE chs[CHOOSE i \in owners : \A j \in owners : j <= i].id

\* localChallenges is the store's own array (getAllChallenges returns
\* data.challenges and saveChallenge writes into it), so the selection after
\* the merge loops reads the merged store.
challengesToPush(chs, lastSyncAt, now) ==
  LET sel == filter(chs, LAMBDA c : needsPush(c, lastSyncAt))
  IN [i \in 1..Len(sel) |-> toSyncChallenge(sel[i], now)]

entriesToPush(chs, ens, lastSyncAt, now) ==
  LET sel == filter(ens, LAMBDA e : needsPush(e, lastSyncAt)
                                     /\ goalToChallenge(chs, e.goalId) # Undef)
  IN [i \in 1..Len(sel) |-> toSyncEntry(sel[i], goalToChallenge(chs, sel[i].goalId), now)]

\* ------------------------------- functions/api/sync: the remote database
\* A database is a record of three tables, each a set of rows.  Flags are
\* stored as 0 / 1; NULL is 0 for end_date and failed_on_day, Undef for note.
Users == {"u1", "u2"}

EmptyDB == [challenges |-> {}, goals |-> {}, entries |-> {}]

RECURSIVE SortByUpdatedAt(_)
\* ORDER BY updated_at ASC (the order among equal keys is the database's).
SortByUpdatedAt(rows) ==
  IF rows = {} THEN <<>>
  ELSE LET r == CHOOSE x \in rows : \A y \in rows : x.updated_at <= y.updated_at
       IN <<r>> \o SortByUpdatedAt(rows \ {r})

RECURSIVE SortByUpdatedAtField(_)
\* The same order on records that carry the key as updatedAt.
SortByUpdatedAtField(records) ==
  IF records = {} THEN <<>>
  ELSE LET r == CHOOSE x \in records : \A y \in records : x.updatedAt <= y.updatedAt
       IN <<r>> \o SortByUpdatedAtField(records \ {r})

\* One pulled challenge: the row and the goals whose challenge_id is its id.
pullChallenge(db, c) ==
  [id |-> c.id,
   name |-> c.name,
   status |-> c.status,
   endDate |-> c.end_date,
   failedOnDay |-> c.failed_on_day,
   visibleToFriends |-> IF c.visible_to_friends = 1 THEN "true" ELSE "false",
   goals |-> {[id |-> g.id, name |-> g.name] : g \in {x \in db.goals : x.challenge_id = c.id}},
   updatedAt |-> c.updated_at]

pullEntry(e) ==
  [id |-> e.id,
   challengeId |-> e.challenge_id,
   goalId |-> e.goal_id,
   date |-> e.date,
   completed |-> (e.completed = 1),
   note |-> e.note,
   updatedAt |-> e.updated_at]

\* GET /api/sync/pull: the user's rows with updated_at > since, `since`
\* defaulting to the epoch (0), and the server's clock.
onRequestGet(db, user, since, now) ==
  LET cs == SortByUpdatedAt({c \in db.challenges : c.user_id = user /\ c.updated_at > since})
      es == SortByUpdatedAt({e \in db.entries : e.user_id = user /\ e.updated_at > since})
  IN [challenges |-> [i \in 1..Len(cs) |-> pullChallenge(db, cs[i])],
      entries |-> [i \in 1..Len(es) |-> pullEntry(es[i])],
      serverTime |-> now]

\* isValidChallenge / isValidEntry, on the fields the model carries: a name
\* of 1..100 characters, a status of VALID_STATUSES, boolean flags.
isValidChallenge(c) ==
  /\ c.name # ""
  /\ c.status \in Statuses
  /\ c.visibleToFriends \in {"true", "false"}
  /\ \A g \in c.goals : g.name # ""

isValidEntry(e) ==
  /\ e.completed \in BOOLEAN
  /\ e.goalId \in GoalIds
  /\ e.challengeId \in ChallengeIds

\* The UPDATE binding `now` for `challenge.updatedAt || now`.
updateChallengeRowServerTime(r, challenge, now) ==
  [r EXCEPT !.name = challenge.name,
            !.status = challenge.status,
            !.end_date = challenge.endDate,
            !.failed_on_day = challenge.failedOnDay,
            !.visible_to_friends = IF challenge.visibleToFriends = "true" THEN 1 ELSE 0,
            !.updated_at = now]

\* UPDATE challenges SET ... WHERE id = ? AND user_id = ?
updateChallengeRow(r, challenge, now) ==
  [r EXCEPT !.name = challenge.name,
            !.status = challenge.status,
            !.end_date = challenge.endDate,
            !.failed_on_day = challenge.failedOnDay,
            !.visible_to_friends = IF challenge.visibleToFriends = "true" THEN 1 ELSE 0,
            !.updated_at = IF challenge.updatedAt # 0 THEN challenge.updatedAt ELSE now]

\* INSERT INTO challenges (...)
insertChallengeRow(user, challenge, now) ==
  [id |-> challenge.id,
   user_id |-> user,
   name |-> challenge.name,
   status |-> challenge.status,
   end_date |-> challenge.endDate,
   failed_on_day |-> challenge.failedOnDay,
   visible_to_friends |-> IF challenge.visibleToFriends = "true" THEN 1 ELSE 0,
   created_at |-> now,
   updated_at |-> IF challenge.updatedAt # 0 THEN challenge.updatedAt ELSE now]

\* The challenge step of the push loop: SELECT by (id, user_id), then UPDATE
\* when a row exists and INSERT otherwise.  An INSERT whose id is another
\* user's row breaks the PRIMARY KEY: the statement throws.
pushChallengeRow(db, user, challenge, now) ==
  LET existing == {r \in db.challenges : r.id = challenge.id /\ r.user_id = user}
  IN IF existing # {}
     THEN [db |-> [db EXCEPT !.challenges =
                     {IF r \in existing THEN updateChallengeRow(r, challenge, now) ELSE r
                        : r \in db.challenges}],
           thrown |-> FALSE]
     ELSE IF \E r \in db.challenges : r.id = challenge.id
     THEN [db |-> db, thrown |-> TRUE]
     ELSE [db |-> [db EXCEPT !.challenges = @ \cup {insertChallengeRow(user, challenge, now)}],
           thrown |-> FALSE]

\* The goal step: SELECT id FROM goals WHERE id = ?, then INSERT or
\* UPDATE goals SET name, color WHERE id = ?.
pushGoalRow(db, user, challengeId, goal, now) ==
  IF \E g \in db.goals : g.id = goal.id
  THEN [db EXCEPT !.goals = {IF g.id = goal.id THEN [g EXCEPT !.name = goal.name] ELSE g
                               : g \in db.goals}]
  ELSE [db EXCEPT !.goals = @ \cup {[id |-> goal.id, challenge_id |-> challengeId,
                                      user_id |-> user, name |-> goal.name,
                                      created_at |-> now]}]

RECURSIVE pushGoals(_, _, _, _, _)
pushGoals(db, user, challengeId, goals, now) ==
  IF goals = {} THEN db
  ELSE LET goal == CHOOSE g \in goals : TRUE
       IN pushGoals(pushGoalRow(db, user, challengeId, goal, now),
                    user, challengeId, goals \ {goal}, now)

\* The entry step: skip the entry of a goal the user does not own; SELECT
\* by (goal_id, date), then UPDATE when a row exists and INSERT otherwise.
pushEntryRow(db, user, entry, now) ==
  LET owners == {g.user_id : g \in {x \in db.goals : x.id = entry.goalId}}
      existing == {r \in db.entries : r.goal_id = entry.goalId /\ r.date = entry.date}
      note == IF entry.note = "" THEN Undef ELSE entry.note
      updated == IF entry.updatedAt # 0 THEN entry.updatedAt ELSE now
  IN IF owners = {} \/ owners # {user}
     THEN [db |-> db, thrown |-> FALSE]
     ELSE IF existing # {}
     THEN [db |-> [db EXCEPT !.entries =
                     {IF r \in existing
                      THEN [r EXCEPT !.completed = IF entry.completed THEN 1 ELSE 0,
                                     !.note = note,
                                     !.updated_at = updated]
                      ELSE r : r \in db.entries}],
           thrown |-> FALSE]
     ELSE IF \E r \in db.entries : r.id = entry.id
     THEN [db |-> db, thrown |-> TRUE]
     ELSE [db |-> [db EXCEPT !.entries = @ \cup
                     {[id |-> entry.id, user_id |-> user, challenge_id |-> entry.challengeId,
                       goal_id |-> entry.goalId, date |-> entry.date,
                       completed |-> IF entry.completed THEN 1 ELSE 0,
                       note |-> note, created_at |-> now, updated_at |-> updated]}],
           thrown |-> FALSE]

RECURSIVE pushChallenges(_, _, _, _, _)
\* for (const challenge of validChallenges): the row, then its goals; a
\* thrown statement leaves the loop with what was written so far.
pushChallenges(db, user, cs, i, now) ==
  IF i > Len(cs) THEN [db |-> db, thrown |-> FALSE]
  ELSE LET r == pushChallengeRow(db, user, cs[i], now)
       IN IF r.thrown THEN r
          ELSE pushChallenges(pushGoals(r.db, user, cs[i].id, cs[i].goals, now),
                              user, cs, i + 1, now)

RECURSIVE pushEntries(_, _, _, _, _)
pushEntries(db, user, es, i, now) ==
  IF i > Len(es) THEN [db |-> db, thrown |-> FALSE]
  ELSE LET r == pushEntryRow(db, user, es[i], now)
       IN IF r.thrown THEN r ELSE pushEntries(r.db, user, es, i + 1, now)

\* POST /api/sync/push: validate, apply the challenges and then the entries,
\* answer { success, syncedAt: now } or, when a statement threw, an error.
onRequestPost(db, user, body, now) ==
  LET validChallenges == filter(body.challenges, isValidChallenge)
      validEntries == filter(body.entries, isValidEntry)
      c == pushChallenges(db, user, validChallenges, 1, now)
      e == IF c.thrown THEN c ELSE pushEntries(c.db, user, validEntries, 1, now)
  IN [db |-> e.db, error |-> e.thrown, syncedAt |-> now]

\* ================================================== the client and remote
\* One device (local store, account, two overlapping invocations of the sync
\* engine), the remote database, and the user's other devices pushing to it.
Procs == {"p1", "p2"}
NullId == "null"
User == "u1"

VARIABLES
  clock,               \* the last timestamp handed out (device and server)
  challenges,          \* cache.challenges
  entries,             \* cache.entries
  currentChallengeId,  \* cache.currentChallengeId
  hasAccount,          \* a LocalAccount is stored
  lastSyncAt,          \* account.lastSyncAt (0: null)
  remote,              \* the D1 database
  pc,                  \* where each invocation is suspended
  since,               \* performSync's local lastSyncAt
  response,            \* the answer the awaited request resolves to
  pulled,              \* performSync's serverData, kept across the push await
  pushBody,            \* the body given to api.syncPush
  result,              \* what the invocation returned last
  otherPushes,         \* the pushes other devices have made
  inflight,            \* history: the local writes made while an invocation is suspended
  inbox,               \* SpecMerge: the pulled batches still to merge
  delivered,           \* SpecMerge, history: the batches merged so far, in order
  store0,              \* SpecMerge, history: the store before the first merge
  lastPush,            \* SpecPush, history: the body of the last push
  remoteBefore,        \* SpecPush, history: the database before the last push
  repeatedPush,        \* SpecPush, history: the last push repeated the one before
  serverTimes,         \* history: the timestamps successful responses brought the device
  today,               \* SpecDays: the local calendar date getToday() returns
  zone,                \* SpecDays: the daylight-saving rule of the device's time zone
  returned,            \* SpecDays, SpecStore: the last call and the value it returned
  stored,              \* SpecStore: the value localStorage holds under STORAGE_KEY
  free,                \* SpecStore: the room left in the origin's localStorage quota
  memoryCache          \* SpecCache: cache.ts memoryCache, the in-memory cache of the IndexedDB store

vars == <<clock, challenges, entries, currentChallengeId, hasAccount, lastSyncAt,
          remote, pc, since, response, pulled, pushBody, result, otherPushes, inflight,
          inbox, delivered, store0, lastPush, remoteBefore, repeatedPush, serverTimes,
          today, zone, returned, stored, free, memoryCache>>

localVars == <<challenges, entries, currentChallengeId>>
procVars == <<pc, since, response, pulled, pushBody, result, inflight>>
mergeVars == <<inbox, delivered, store0>>
pushVars == <<lastPush, remoteBefore, repeatedPush>>
dayVars == <<today, zone, returned>>
storageVars == <<stored, free, memoryCache>>
accountVarsButTimes == <<hasAccount, otherPushes, mergeVars, pushVars, dayVars, storageVars>>
accountVars == <<accountVarsButTimes, serverTimes>>

NoResponse == [none |-> TRUE]
NoBody == [challenges |-> <<>>, entries |-> <<>>, lastSyncAt |-> 0]
NoResult == [none |-> TRUE]

\* No invocation of the sync engine has started.
InitProcs ==
  /\ pc = [p \in Procs |-> "idle"]
  /\ since = [p \in Procs |-> 0]
  /\ response = [p \in Procs |-> NoResponse]
  /\ pulled = [p \in Procs |-> NoResponse]
  /\ pushBody = [p \in Procs |-> NoBody]
  /\ result = [p \in Procs |-> NoResult]
  /\ inflight = [p \in Procs |-> {}]

InitMergeVars ==
  /\ inbox = {}
  /\ delivered = <<>>
  /\ store0 = [challenges |-> <<>>, entries |-> <<>>]

InitPushVars ==
  /\ lastPush = NoBody
  /\ remoteBefore = EmptyDB
  /\ repeatedPush = FALSE

\* The device's time zone keeps one offset all year.
NoZone == [kind |-> "fixed", day |-> 0]

\* No call has returned yet.
NoReturn == [op |-> "none"]

InitDayVars ==
  /\ today = 0
  /\ zone = NoZone
  /\ returned = NoReturn

\* cache.ts: the keys of the namespaces of the user's own entries and current
\* challenge, `${namespace}:${key}:v1` or `${namespace}:v1` without a key ("").
CacheKeys == {"entries", "currentChallenge"} \X ({""} \cup ChallengeIds)

\* new Map(): no key is cached.
EmptyCache == [k \in CacheKeys |-> NoRecord]

\* getDefaultStorage(): nothing stored yet.
EmptyStore == [challenges |-> <<>>, entries |-> <<>>, currentChallengeId |-> NullId]

\* Every localStorage.setItem succeeds: the store is as written.
InitStorageVars ==
  /\ stored = EmptyStore
  /\ free = 0
  /\ memoryCache = EmptyCache

\* A fresh install: getDefaultStorage(), an empty database, with or without
\* a registered account.
Init ==
  /\ clock = 0
  /\ challenges = <<>>
  /\ entries = <<>>
  /\ currentChallengeId = NullId
  /\ hasAccount \in BOOLEAN
  /\ lastSyncAt = 0
  /\ remote = EmptyDB
  /\ otherPushes = 0
  /\ serverTimes = {}
  /\ InitDayVars
  /\ InitStorageVars
  /\ InitProcs
  /\ InitMergeVars
  /\ InitPushVars

\* new Date().toISOString() / nowISO(): the next instant of the clock.
Now == clock + 1
Tick == clock < MaxTime /\ clock' = Now

\* ------------------------------------------------------------- store.ts
\* History: a local write of `record` is noted for every suspended performSync.
Suspended == {p \in Procs : pc[p] \in {"pull", "pullDone", "push", "pushDone"}}

noteWrite(kind, record) ==
  inflight' = [p \in Procs |->
                 IF p \in Suspended
                 THEN inflight[p] \cup {[kind |-> kind, record |-> record]}
                 ELSE inflight[p]]

procVarsButHistory == <<pc, since, response, pulled, pushBody, result>>

\* generateId(): an id no record carries yet.
UnusedIds ==
  {id \in ChallengeIds :
     /\ getChallenge(challenges, id) = NoRecord
     /\ \A r \in remote.challenges : r.id # id}

newChallenge(id, name, now) ==
  [id |-> id,
   name |-> name,
   status |-> "active",
   endDate |-> 0,
   failedOnDay |-> 0,
   visibleToFriends |-> Undef,
   goals |-> {[id |-> GoalIdOf(id), name |-> "g"]},
   updatedAt |-> now]

\* createChallenge: save the new challenge and make it the current one.
createChallenge(id, name) ==
  /\ Tick
  /\ id \in UnusedIds
  /\ challenges' = saveChallenge(challenges, newChallenge(id, name, Now))
  /\ currentChallengeId' = id
  /\ noteWrite("challenge", newChallenge(id, name, Now))
  /\ UNCHANGED <<entries, accountVars, lastSyncAt, remote, procVarsButHistory>>

\* { ...challenge, ...updates, updatedAt: new Date().toISOString() }
updatedChallenge(challenge, name, now) ==
  [challenge EXCEPT !.name = name, !.updatedAt = now]

\* updateChallenge(challengeId, updates): the updates are an edit of the name.
updateChallenge(challengeId, name) ==
  /\ getChallenge(challenges, challengeId) # NoRecord
  /\ Tick
  /\ challenges' = saveChallenge(challenges,
                      updatedChallenge(getChallenge(challenges, challengeId), name, Now))
  /\ noteWrite("challenge", updatedChallenge(getChallenge(challenges, challengeId), name, Now))
  /\ UNCHANGED <<entries, currentChallengeId, accountVars, lastSyncAt, remote, procVarsButHistory>>

\* The challenge endChallenge saves.
endedChallenge(challenge, status, failedOnDay, now) ==
  [challenge EXCEPT
     !.status = status,
     !.endDate = DateOf(now),
     !.updatedAt = now,
     !.failedOnDay = IF failedOnDay # 0 THEN failedOnDay ELSE @]

\* A mutant of pointerAfterEnd: the pointer is left as it was.
pointerKept(currentId, challengeId) == currentId

\* The pointer after endChallenge: cleared when it was the ended challenge.
pointerAfterEnd(currentId, challengeId) ==
  IF currentId = challengeId THEN NullId ELSE currentId

\* endChallenge(challengeId, status, failedOnDay?)
endChallenge(challengeId, status, failedOnDay) ==
  /\ getChallenge(challenges, challengeId) # NoRecord
  /\ Tick
  /\ challenges' = saveChallenge(challenges,
                      endedChallenge(getChallenge(challenges, challengeId),
                                     status, failedOnDay, Now))
  /\ currentChallengeId' = pointerAfterEnd(currentChallengeId, challengeId)
  /\ noteWrite("challenge", endedChallenge(getChallenge(challenges, challengeId),
                                           status, failedOnDay, Now))
  /\ UNCHANGED <<entries, accountVars, lastSyncAt, remote, procVarsButHistory>>

newEntry(date, goalId, completed, note, now) ==
  [date |-> date, goalId |-> goalId, completed |-> completed, note |-> note,
   updatedAt |-> now]

\* setEntry(date, goalId, completed, note): saved whether or not a challenge
\* of the store lists the goal.
setEntry(date, goalId, completed) ==
  /\ Tick
  /\ entries' = saveEntry(entries, newEntry(date, goalId, completed, Undef, Now))
  /\ noteWrite("entry", newEntry(date, goalId, completed, Undef, Now))
  /\ UNCHANGED <<challenges, currentChallengeId, accountVars, lastSyncAt, remote, procVarsButHistory>>

\* ------------------------------------------------- sync.ts: performSync
\* toggleEntry(date, goalId): the opposite of the stored completed flag (true
\* when there is no entry), keeping the note.
toggleEntry(date, goalId) ==
  LET existing == getEntry(entries, date, goalId)
      entry == newEntry(date, goalId,
                        IF existing # NoRecord THEN ~existing.completed ELSE TRUE,
                        IF existing # NoRecord THEN existing.note ELSE Undef, Now)
  IN /\ Tick
     /\ entries' = saveEntry(entries, entry)
     /\ noteWrite("entry", entry)
     /\ UNCHANGED <<challenges, currentChallengeId, accountVars, lastSyncAt, remote, procVarsButHistory>>

\* updateEntryNote(date, goalId, note): null without an entry, otherwise
\* setEntry with the stored completed flag and the note.
updateEntryNote(date, goalId, note) ==
  LET existing == getEntry(entries, date, goalId)
      entry == newEntry(date, goalId, existing.completed, note, Now)
  IN /\ existing # NoRecord
     /\ Tick
     /\ entries' = saveEntry(entries, entry)
     /\ noteWrite("entry", entry)
     /\ UNCHANGED <<challenges, currentChallengeId, accountVars, lastSyncAt, remote, procVarsButHistory>>

SyncResult(success, pushedCounts, pulledCounts, error) ==
  [success |-> success, pushed |-> pushedCounts, pulled |-> pulledCounts, error |-> error]

Return(p, value) ==
  /\ inflight' = [inflight EXCEPT ![p] = {}]
  /\ pc' = [pc EXCEPT ![p] = "idle"]
  /\ since' = [since EXCEPT ![p] = 0]
  /\ response' = [response EXCEPT ![p] = NoResponse]
  /\ pulled' = [pulled EXCEPT ![p] = NoResponse]
  /\ pushBody' = [pushBody EXCEPT ![p] = NoBody]
  /\ result' = [result EXCEPT ![p] = value]

\* performSync without a local account: 'Not logged in'.
performSyncNoAccount(p) ==
  /\ pc[p] = "idle"
  /\ ~hasAccount
  /\ Return(p, SyncResult(FALSE, <<0, 0>>, <<0, 0>>, "Not logged in"))
  /\ UNCHANGED <<clock, localVars, accountVars, lastSyncAt, remote>>

\* performSync when the stored account cannot be read: getLocalAccount
\* catches the exception and answers null.
performSyncAccountUnreadable(p) ==
  /\ pc[p] = "idle"
  /\ hasAccount
  /\ Return(p, SyncResult(FALSE, <<0, 0>>, <<0, 0>>, "Not logged in"))
  /\ UNCHANGED <<clock, localVars, accountVars, lastSyncAt, remote>>

\* A statement of the try block throwing with nothing caught: the promise
\* of performSync rejects.
performSyncThrowsUncaught(p, message) ==
  /\ pc[p] \in {"pullDone", "pushDone"}
  /\ pc[p] = "pullDone" => response[p].error = ""
  /\ Return(p, [rejected |-> message])
  /\ UNCHANGED <<clock, localVars, accountVars, lastSyncAt, remote>>

\* A statement of the try block throws when performSync resumes: reading a
\* malformed pull response before the first save, or updateLastSyncAt when
\* the account cannot be written.  The catch returns the failure.
performSyncThrows(p, message) ==
  /\ pc[p] \in {"pullDone", "pushDone"}
  /\ pc[p] = "pullDone" => response[p].error = ""
  /\ Return(p, SyncResult(FALSE, <<0, 0>>, <<0, 0>>, message))
  /\ UNCHANGED <<clock, localVars, accountVars, lastSyncAt, remote>>

\* performSync up to `await api.syncPull(lastSyncAt || undefined)`.
performSyncStart(p) ==
  /\ pc[p] = "idle"
  /\ hasAccount
  /\ pc' = [pc EXCEPT ![p] = "pull"]
  /\ since' = [since EXCEPT ![p] = lastSyncAt]
  /\ result' = [result EXCEPT ![p] = NoResult]
  /\ UNCHANGED <<clock, localVars, accountVars, lastSyncAt, remote, response, pulled, pushBody, inflight>>

\* The server answers the pull of a performSync or of a tryRecoverFromCloud.
servePull(p) ==
  /\ pc[p] \in {"pull", "rpull"}
  /\ Tick
  /\ response' = [response EXCEPT ![p] =
                    [error |-> "", data |-> onRequestGet(remote, User, since[p], Now)]]
  /\ pc' = [pc EXCEPT ![p] = IF pc[p] = "pull" THEN "pullDone" ELSE "rpullDone"]
  /\ serverTimes' = serverTimes \cup {[from |-> "pull", time |-> Now]}
  /\ UNCHANGED <<localVars, accountVarsButTimes, lastSyncAt, remote, since, pulled, pushBody, result, inflight>>

\* The pull fails: the server's error response, or fetch throws and
\* apiRequest answers 'Network error'.
failPull(p, error) ==
  /\ pc[p] \in {"pull", "rpull"}
  /\ response' = [response EXCEPT ![p] = [error |-> error]]
  /\ pc' = [pc EXCEPT ![p] = IF pc[p] = "pull" THEN "pullDone" ELSE "rpullDone"]
  /\ UNCHANGED <<clock, localVars, accountVars, lastSyncAt, remote, since, pulled, pushBody, result, inflight>>

\* pullFailed without its early return: the error is logged and performSync
\* goes on to push what the store holds.
pullFailedGoesOn(p) ==
  /\ pc[p] = "pullDone"
  /\ response[p].error # ""
  /\ pulled' = [pulled EXCEPT ![p] = [serverTime |-> Now, count |-> <<0, 0>>]]
  /\ pushBody' = [pushBody EXCEPT ![p] =
       [challenges |-> [i \in 1..Len(challenges) |-> toSyncChallenge(challenges[i], Now)],
        entries |-> <<>>, lastSyncAt |-> since[p]]]
  /\ response' = [response EXCEPT ![p] = [none |-> TRUE]]
  /\ pc' = [pc EXCEPT ![p] = "push"]
  /\ UNCHANGED <<clock, challenges, entries, currentChallengeId, accountVars,
                 lastSyncAt, remote, since, result, inflight>>

\* performSync resumes with pullResult.error set.
pullFailed(p) ==
  /\ pc[p] = "pullDone"
  /\ response[p].error # ""
  /\ Return(p, SyncResult(FALSE, <<0, 0>>, <<0, 0>>, response[p].error))
  /\ UNCHANGED <<clock, localVars, accountVars, lastSyncAt, remote>>

\* The store after the two merge loops.
mergedChallenges(chs, serverData) == mergeChallenges(chs, chs, serverData.challenges, 1)
mergedEntries(ens, serverData) == mergeEntries(ens, ens, serverData.entries, 1)

\* The body performSync hands to api.syncPush.
pushRequest(chs, ens, lastSync, now) ==
  [challenges |-> challengesToPush(chs, lastSync, now),
   entries |-> entriesToPush(chs, ens, lastSync, now),
   lastSyncAt |-> lastSync]

\* performSync resumes with the pulled data: merge, select, and call
\* api.syncPush; it runs without suspending up to that await.
mergeAndPush(p) ==
  LET serverData == response[p].data
      chs == mergedChallenges(challenges, serverData)
      ens == mergedEntries(entries, serverData)
  IN /\ pc[p] = "pullDone"
     /\ response[p].error = ""
     /\ challenges' = chs
     /\ entries' = ens
     /\ pulled' = [pulled EXCEPT ![p] =
          [serverTime |-> serverData.serverTime,
           count |-> <<pulledCount(LAMBDA c : getChallenge(challenges, c.id),
                                   serverData.challenges),
                       pulledCount(LAMBDA e : getEntry(entries, e.date, e.goalId),
                                   serverData.entries)>>]]
     /\ pushBody' = [pushBody EXCEPT ![p] = pushRequest(chs, ens, since[p], Now)]
     /\ response' = [response EXCEPT ![p] = NoResponse]
     /\ pc' = [pc EXCEPT ![p] = "push"]
     /\ UNCHANGED <<clock, currentChallengeId, accountVars, lastSyncAt, remote, since, result, inflight>>

\* The server handles the push and answers.
servePush(p) ==
  LET r == onRequestPost(remote, User, pushBody[p], Now)
  IN /\ pc[p] = "push"
     /\ Tick
     /\ remote' = r.db
     /\ response' = [response EXCEPT ![p] =
          IF r.error THEN [error |-> "Failed to sync data"]
          ELSE [error |-> "", data |-> [syncedAt |-> r.syncedAt]]]
     /\ pc' = [pc EXCEPT ![p] = "pushDone"]
     /\ serverTimes' = IF r.error THEN serverTimes
                       ELSE serverTimes \cup {[from |-> "push", time |-> r.syncedAt]}
     /\ UNCHANGED <<localVars, accountVarsButTimes, lastSyncAt, since, pulled, pushBody, result, inflight>>

\* The push request never reaches the server: 'Network error'.
failPush(p) ==
  /\ pc[p] = "push"
  /\ response' = [response EXCEPT ![p] = [error |-> "Network error"]]
  /\ pc' = [pc EXCEPT ![p] = "pushDone"]
  /\ UNCHANGED <<clock, localVars, accountVars, lastSyncAt, remote, since, pulled, pushBody, result, inflight>>

\* newSyncAt falling back on the device's clock when the push failed.
newSyncAtClientClock(pushResult, serverData) ==
  IF pushResult.error = "" THEN pushResult.data.syncedAt ELSE Now

\* const newSyncAt = pushResult.data?.syncedAt || serverData.serverTime
newSyncAt(pushResult, serverData) ==
  IF pushResult.error = "" THEN pushResult.data.syncedAt ELSE serverData.serverTime

\* performSync resumes after the push: it stores the watermark and returns.
pushResume(p) ==
  /\ pc[p] = "pushDone"
  /\ lastSyncAt' = newSyncAt(response[p], pulled[p])
  /\ Return(p, SyncResult(TRUE,
                           <<Len(pushBody[p].challenges), Len(pushBody[p].entries)>>,
                           pulled[p].count, ""))
  /\ UNCHANGED <<clock, localVars, accountVars, remote>>

\* The server applies the push but its answer is lost: 'Network error'.
losePushResponse(p) ==
  LET r == onRequestPost(remote, User, pushBody[p], Now)
  IN /\ pc[p] = "push"
     /\ Tick
     /\ remote' = r.db
     /\ response' = [response EXCEPT ![p] = [error |-> "Network error"]]
     /\ pc' = [pc EXCEPT ![p] = "pushDone"]
     /\ UNCHANGED <<localVars, accountVars, lastSyncAt, since, pulled, pushBody, result, inflight>>

\* ----------------------------------------- sync.ts: tryRecoverFromCloud
RECURSIVE saveAllChallenges(_, _, _)
saveAllChallenges(chs, serverChallenges, i) ==
  IF i > Len(serverChallenges) THEN chs
  ELSE saveAllChallenges(saveChallenge(chs, fromSyncChallenge(serverChallenges[i])),
                         serverChallenges, i + 1)

RECURSIVE saveAllEntries(_, _, _)
saveAllEntries(ens, serverEntries, i) ==
  IF i > Len(serverEntries) THEN ens
  ELSE saveAllEntries(saveEntry(ens, fromSyncEntry(serverEntries[i])),
                      serverEntries, i + 1)

\* The challenge tryRecoverFromCloud makes current: the first active one,
\* otherwise the first of those with the greatest updatedAt (a stable sort,
\* descending).
recoveredCurrentId(serverChallenges) ==
  LET active == findIndex(serverChallenges, LAMBDA c : c.status = "active", 1)
      newest == findIndex(serverChallenges,
                          LAMBDA c : \A j \in 1..Len(serverChallenges) :
                                       serverChallenges[j].updatedAt <= c.updatedAt, 1)
  IN IF active >= 1 THEN serverChallenges[active].id ELSE serverChallenges[newest].id

\* tryRecoverFromCloud without a local account: false.
recoverNoAccount(p) ==
  /\ pc[p] = "idle"
  /\ ~hasAccount
  /\ Return(p, [recovered |-> FALSE])
  /\ UNCHANGED <<clock, localVars, accountVars, lastSyncAt, remote>>

\* tryRecoverFromCloud up to `await api.syncPull()`; it is called when the
\* local store is found empty.
recoverStart(p) ==
  /\ pc[p] = "idle"
  /\ hasAccount
  /\ challenges = <<>>
  /\ pc' = [pc EXCEPT ![p] = "rpull"]
  /\ since' = [since EXCEPT ![p] = 0]
  /\ result' = [result EXCEPT ![p] = NoResult]
  /\ UNCHANGED <<clock, localVars, accountVars, lastSyncAt, remote, response, pulled, pushBody, inflight>>

\* tryRecoverFromCloud resumes with a failed pull or with no challenge.
recoverNothing(p) ==
  /\ pc[p] = "rpullDone"
  /\ IF response[p].error # "" THEN TRUE ELSE Len(response[p].data.challenges) = 0
  /\ Return(p, [recovered |-> FALSE])
  /\ UNCHANGED <<clock, localVars, accountVars, lastSyncAt, remote>>

\* tryRecoverFromCloud resumes with challenges: save them all, make one
\* current, store serverTime as the watermark.
recoverResume(p) ==
  /\ pc[p] = "rpullDone"
  /\ response[p].error = ""
  /\ Len(response[p].data.challenges) > 0
  /\ challenges' = saveAllChallenges(challenges, response[p].data.challenges, 1)
  /\ entries' = saveAllEntries(entries, response[p].data.entries, 1)
  /\ currentChallengeId' = recoveredCurrentId(response[p].data.challenges)
  /\ lastSyncAt' = response[p].data.serverTime
  /\ Return(p, [recovered |-> TRUE])
  /\ UNCHANGED <<clock, accountVars, remote>>

\* --------------------------------------------- the user's other devices
\* Another device of the same user pushes one challenge, stamped by its own
\* clock, through the same handler.
otherDeviceChallenge(id, name, status, updatedAt) ==
  [id |-> id,
   name |-> name,
   status |-> status,
   endDate |-> IF status = "active" THEN 0 ELSE DateOf(updatedAt),
   failedOnDay |-> IF status = "failed" THEN 1 ELSE 0,
   visibleToFriends |-> "true",
   goals |-> {[id |-> GoalIdOf(id), name |-> "g"]},
   updatedAt |-> updatedAt]

otherDevicePushesChallenge(id, status, updatedAt) ==
  /\ Tick
  /\ otherPushes < MaxOtherPushes
  /\ otherPushes' = otherPushes + 1
  /\ remote' = onRequestPost(remote, User,
                  [challenges |-> <<otherDeviceChallenge(id, "b", status, updatedAt)>>,
                   entries |-> <<>>, lastSyncAt |-> 0], Now).db
  /\ UNCHANGED <<localVars, hasAccount, mergeVars, pushVars, lastSyncAt, procVars, serverTimes, dayVars, storageVars>>

\* The SyncEntry of a check-in made on another device, on date d1.
otherDeviceEntry(challengeId, goalId, completed, note, updatedAt) ==
  [id |-> <<goalId, "d1">>,
   challengeId |-> challengeId,
   goalId |-> goalId,
   date |-> "d1",
   completed |-> completed,
   note |-> note,
   updatedAt |-> updatedAt]

\* Another device pushes a check-in of the goal of challenge `id`, in one
\* request with the challenge when the server does not hold it yet (the
\* device's first sync of a challenge it created).
otherDevicePushesEntry(id, completed, updatedAt) ==
  /\ Tick
  /\ otherPushes < MaxOtherPushes
  /\ otherPushes' = otherPushes + 1
  /\ remote' = onRequestPost(remote, User,
                  [challenges |->
                     IF \E g \in remote.goals : g.id = GoalIdOf(id) THEN <<>>
                     ELSE <<otherDeviceChallenge(id, "b", "active", updatedAt)>>,
                   entries |-> <<otherDeviceEntry(id, GoalIdOf(id), completed, Undef,
                                                  updatedAt)>>,
                   lastSyncAt |-> 0], Now).db
  /\ UNCHANGED <<localVars, hasAccount, mergeVars, pushVars, lastSyncAt, procVars, serverTimes, dayVars, storageVars>>

\* ------------------------------------------------------ the state machine
\* The operations of the device, its invocations in `procs` and its
\* challenges in `ids`.
StoreNext(ids) ==
  \/ \E id \in ids : createChallenge(id, "a")
  \/ \E id \in ids : updateChallenge(id, "b")
  \/ \E id \in ids, status \in TerminalStatuses :
       endChallenge(id, status, IF status = "failed" THEN 1 ELSE 0)
  \/ \E id \in ids, completed \in BOOLEAN : setEntry("d1", GoalIdOf(id), completed)

SyncNext(procs) ==
  \/ \E p \in procs : performSyncNoAccount(p)
  \/ \E p \in procs : performSyncAccountUnreadable(p)
  \/ \E p \in procs, message \in {"Sync failed", "QuotaExceededError"} :
       performSyncThrows(p, message)
  \/ \E p \in procs : performSyncStart(p)
  \/ \E p \in procs : servePull(p)
  \/ \E p \in procs, error \in {"Network error", "Failed to fetch data"} : failPull(p, error)
  \/ \E p \in procs : pullFailed(p)
  \/ \E p \in procs : mergeAndPush(p)
  \/ \E p \in procs : servePush(p)
  \/ \E p \in procs : failPush(p)
  \/ \E p \in procs : losePushResponse(p)
  \/ \E p \in procs : pushResume(p)

RecoverNext(procs) ==
  \/ \E p \in procs : recoverNoAccount(p)
  \/ \E p \in procs : recoverStart(p)
  \/ \E p \in procs : recoverNothing(p)
  \/ \E p \in procs : recoverResume(p)

OtherStatuses == {"active", "failed"}

OtherNext(ids) ==
  \/ \E id \in ids, status \in OtherStatuses, t \in 1..MaxTime :
       otherDevicePushesChallenge(id, status, t)
  \/ \E id \in ids, completed \in BOOLEAN, t \in 1..MaxTime :
       otherDevicePushesEntry(id, completed, t)

\* One challenge id, one invocation of the sync engine at a time.
Next ==
  \/ StoreNext({"c1"})
  \/ SyncNext({"p1"})
  \/ RecoverNext({"p1"})
  \/ OtherNext({"c1"})

Spec == Init /\ [][Next]_vars

\* The steps the device takes by itself once a response has arrived: the
\* event loop resumes a performSync or a tryRecoverFromCloud whose awaited
\* promise is settled.  Whether and when the remote answers is not the
\* device's to decide: fetch is called without a signal or a timer, so no
\* step of the device ends the wait.
Resumes ==
  \E p \in Procs :
    \/ pullFailed(p)
    \/ mergeAndPush(p)
    \/ pushResume(p)
    \/ recoverNothing(p)
    \/ recoverResume(p)

SpecFair == Init /\ [][Next]_vars /\ WF_vars(Resumes)

\* The check-ins of the user on the goals of two challenges, with the sync
\* engine, the recovery and the check-ins of another device.
NextEntries ==
  \/ createChallenge("c1", "a")
  \/ \E goalId \in GoalIds, completed \in BOOLEAN : setEntry("d1", goalId, completed)
  \/ \E goalId \in GoalIds : toggleEntry("d1", goalId)
  \/ \E goalId \in GoalIds : updateEntryNote("d1", goalId, "n")
  \/ SyncNext({"p1"})
  \/ RecoverNext({"p1"})
  \/ \E completed \in BOOLEAN, t \in 1..MaxTime : otherDevicePushesEntry("c1", completed, t)

SpecEntries == Init /\ [][NextEntries]_vars

\* How far the clock of another device may run ahead of this device's.
MaxSkew == 1

\* The device with its sync engine, and other devices that stamp what they
\* push with clocks of their own.
NextSkew ==
  \/ StoreNext({"c1"})
  \/ SyncNext({"p1"})
  \/ \E status \in OtherStatuses, t \in 1..(MaxTime + MaxSkew) :
       otherDevicePushesChallenge("c1", status, t)
  \/ \E completed \in BOOLEAN, t \in 1..(MaxTime + MaxSkew) :
       otherDevicePushesEntry("c1", completed, t)

SpecSkew == Init /\ [][NextSkew]_vars

\* Two invocations of performSync that may overlap, on one challenge id.
NextOverlap ==
  \/ createChallenge("c1", "a")
  \/ \E completed \in BOOLEAN : setEntry("d1", "g1", completed)
  \/ SyncNext(Procs)

SpecOverlap == Init /\ [][NextOverlap]_vars

\* ------------------------------------------------ the push handler alone
\* The greatest updatedAt of the records drawn as inputs of the push handler
\* and of the merge loops.
MaxStamp == 2

\* The requests the push handler serves.
MaxPushes == 2

\* The versions of challenge c1 and of its goal's entry on d1 a client sends.
PushedChallenges ==
  {otherDeviceChallenge("c1", "b", status, t) : status \in OtherStatuses, t \in 1..MaxStamp}

PushedEntries ==
  {otherDeviceEntry("c1", "g1", completed, IF completed THEN "n" ELSE Undef, t) :
     completed \in BOOLEAN, t \in 1..MaxStamp}

\* A SyncPushRequest of at most one challenge and one entry.
PushBodies ==
  {[challenges |-> cs, entries |-> es, lastSyncAt |-> 0] :
     cs \in {<<>>} \cup {<<c>> : c \in PushedChallenges},
     es \in {<<>>} \cup {<<e>> : e \in PushedEntries}} \ {NoBody}

\* A client posts `body` to /api/sync/push; the server reads its clock.
clientPushes(body) ==
  /\ clock < MaxPushes
  /\ clock' = Now
  /\ remote' = onRequestPost(remote, User, body, Now).db
  /\ lastPush' = body
  /\ remoteBefore' = remote
  /\ repeatedPush' = (body = lastPush)
  /\ UNCHANGED <<localVars, hasAccount, otherPushes, mergeVars, lastSyncAt, procVars, serverTimes, dayVars, storageVars>>

NextPush == \E body \in PushBodies : clientPushes(body)

SpecPush == Init /\ [][NextPush]_vars

\* ------------------------------------------------- the merge loops alone
\* The versions of a challenge and of an entry the store may hold; 0 is a
\* record saved without updatedAt.
StoredChallenges(id) == {newChallenge(id, "a", t) : t \in 0..MaxStamp}
StoredEntries(goalId) == {newEntry("d1", goalId, TRUE, Undef, t) : t \in 0..MaxStamp}

\* The versions a pull may return.
PulledChallenges(id) ==
  {otherDeviceChallenge(id, "b", status, t) : status \in OtherStatuses, t \in 1..MaxStamp}
PulledEntries(goalId) ==
  {otherDeviceEntry(IF goalId = "g1" THEN "c1" ELSE "c2", goalId, completed, "n", t) :
     completed \in BOOLEAN, t \in 1..MaxStamp}

\* The sets that hold at most one element of each of two sets of versions.
AtMostOneOfEach(A, B) ==
  {{}} \cup {{a} : a \in A} \cup {{b} : b \in B} \cup {{a, b} : a \in A, b \in B}

\* The stores drawn: challenges of both ids and no entry, or challenge c1
\* and entries of both goals.
LocalStores ==
  {[challenges |-> SetToSeq(cs), entries |-> <<>>] :
     cs \in AtMostOneOfEach(StoredChallenges("c1"), StoredChallenges("c2"))}
  \cup
  {[challenges |-> <<newChallenge("c1", "a", 1)>>, entries |-> SetToSeq(es)] :
     es \in AtMostOneOfEach(StoredEntries("g1"), StoredEntries("g2"))}

\* The data of a pull response: rows in ascending updated_at, serverTime.
PulledBatch(cs, es) ==
  [challenges |-> SortByUpdatedAtField(cs),
   entries |-> SortByUpdatedAtField(es),
   serverTime |-> MaxStamp + 1]

\* One pull of any rows, or two pulls that return two versions of one record.
PulledBatchSets ==
  {{PulledBatch(cs, {})} :
     cs \in AtMostOneOfEach(PulledChallenges("c1"), PulledChallenges("c2"))}
  \cup
  {{PulledBatch({}, es)} :
     es \in AtMostOneOfEach(PulledEntries("g1"), PulledEntries("g2"))}
  \cup
  {{PulledBatch({a}, {}), PulledBatch({b}, {})} :
     a \in PulledChallenges("c1"), b \in PulledChallenges("c1")}
  \cup
  {{PulledBatch({}, {a}), PulledBatch({}, {b})} :
     a \in PulledEntries("g1"), b \in PulledEntries("g1")}

InitMerge ==
  /\ clock = 0
  /\ currentChallengeId = NullId
  /\ hasAccount = TRUE
  /\ lastSyncAt = 0
  /\ remote = EmptyDB
  /\ otherPushes = 0
  /\ serverTimes = {}
  /\ InitDayVars
  /\ InitStorageVars
  /\ InitProcs
  /\ InitPushVars
  /\ delivered = <<>>
  /\ \E store \in LocalStores, batches \in PulledBatchSets :
       /\ challenges = store.challenges
       /\ entries = store.entries
       /\ store0 = store
       /\ inbox = batches

\* The two merge loops of performSync on the data of one pull.
mergePulled(serverData) ==
  /\ serverData \in inbox
  /\ challenges' = mergedChallenges(challenges, serverData)
  /\ entries' = mergedEntries(entries, serverData)
  /\ inbox' = inbox \ {serverData}
  /\ delivered' = Append(delivered, serverData)
  /\ UNCHANGED <<clock, currentChallengeId, hasAccount, otherPushes, pushVars, serverTimes, dayVars, storageVars,
                 lastSyncAt, remote, procVars, store0>>

NextMerge == \E serverData \in inbox : mergePulled(serverData)

SpecMerge == InitMerge /\ [][NextMerge]_vars

\* ------------------------------- batches holding an invalid record
\* A challenge without a name and an entry whose goalId is no UUID: records
\* isValidChallenge and isValidEntry reject.
InvalidChallenge == otherDeviceChallenge("c1", "", "active", 1)
InvalidEntry == otherDeviceEntry("c2", "bad", TRUE, "n", 1)

\* A valid challenge and a valid entry of its goal.
ValidChallenge == otherDeviceChallenge("c2", "b", "active", MaxStamp)
ValidEntry == otherDeviceEntry("c2", "g2", TRUE, "n", MaxStamp)

\* The batches of a request or of a response: an invalid and a valid
\* challenge, in either order, alone or with an invalid and a valid entry.
MixedBatches ==
  {[challenges |-> cs, entries |-> es] :
     cs \in {<<InvalidChallenge, ValidChallenge>>, <<ValidChallenge, InvalidChallenge>>},
     es \in {<<>>, <<InvalidEntry, ValidEntry>>, <<ValidEntry, InvalidEntry>>}}

\* The bodies of the push requests and the data of the pull responses.
MixedBodies ==
  {[challenges |-> b.challenges, entries |-> b.entries, lastSyncAt |-> 0] :
     b \in MixedBatches}
MixedPulls ==
  {[challenges |-> b.challenges, entries |-> b.entries, serverTime |-> MaxStamp + 1] :
     b \in MixedBatches}

\* A device whose pull is answered by one of the batches, and a server.
InitBatch ==
  /\ clock = 0
  /\ currentChallengeId = NullId
  /\ hasAccount = TRUE
  /\ lastSyncAt = 0
  /\ remote = EmptyDB
  /\ otherPushes = 0
  /\ serverTimes = {}
  /\ InitDayVars
  /\ InitStorageVars
  /\ InitProcs
  /\ InitPushVars
  /\ delivered = <<>>
  /\ \E store \in LocalStores, serverData \in MixedPulls :
       /\ challenges = store.challenges
       /\ entries = store.entries
       /\ store0 = store
       /\ inbox = {serverData}

NextBatch ==
  \/ \E serverData \in inbox : mergePulled(serverData)
  \/ \E body \in MixedBodies : clientPushes(body)

SpecBatch == InitBatch /\ [][NextBatch]_vars

\* -------------------------------------- dates.ts and the challenge logic
\* A calendar date (YYYY-MM-DD, compared as a string) is its day count; a
\* Date is the hour count of its instant.
\* The greatest duration of a challenge, in days.
MaxDuration == 3

\* The startDate of the challenges drawn as inputs.
FirstDate == 1

\* The dates getToday() may return: from the day before the challenge starts
\* to the day after its last day.
Todays == 0..(MaxDuration + 1)

\* The time zones: one offset all year, or clocks put forward ("spring") or
\* back ("autumn") one hour during the given date.  The inputs: one offset,
\* or clocks put forward during the challenge's first day.
Zones == {NoZone, [kind |-> "spring", day |-> FirstDate]}

\* The hours the zone's local time is ahead of its standard time at the
\* midnight that begins `date`.
hoursAhead(z, date) ==
  IF z.kind = "spring" THEN (IF date > z.day THEN 1 ELSE 0)
  ELSE IF z.kind = "autumn" THEN (IF date > z.day THEN 0 ELSE 1)
  ELSE 0

\* parseDate: new Date(year, month - 1, day), the local midnight of the date.
parseDate(z, dateStr) == 24 * dateStr - hoursAhead(z, dateStr)

\* getDayNumber: Math.floor(diffTime / one day) + 1.
getDayNumber(z, startDate, targetDate) ==
  ((parseDate(z, targetDate) - parseDate(z, startDate)) \div 24) + 1

\* getChallengeDates: setDate(start.getDate() + i) for i < duration.
getChallengeDates(startDate, duration) ==
  [i \in 1..duration |-> startDate + (i - 1)]

isPast(dateStr, td) == dateStr < td

\* getChallengeEntries: the entries of the goals the challenge lists.
getChallengeEntries(challenge, ens) ==
  SelectSeq(ens, LAMBDA e : e.goalId \in {g.id : g \in challenge.goals})

\* entries.filter(e => e.date === date).filter(e => e.completed)
completedOn(date, ens) ==
  SelectSeq(SelectSeq(ens, LAMBDA e : e.date = date), LAMBDA e : e.completed)

\* A mutant of isDayComplete: the completed entries of the date are counted.
isDayCompleteCounting(date, goals, ens) ==
  Len(completedOn(date, ens)) >= Cardinality(goals)

isDayComplete(date, goals, ens) ==
  LET completedGoalIds == {e.goalId : e \in Range(completedOn(date, ens))}
  IN \A g \in goals : g.id \in completedGoalIds

\* isDayMissed of the synchronous (localStorage) module.
isDayMissed(date, goals, ens, startDate, td) ==
  IF ~isPast(date, td) THEN FALSE
  ELSE IF date < startDate THEN FALSE
  ELSE Len(completedOn(date, ens)) = 0

\* isDayMissed of the asynchronous (IndexedDB) module.
isDayMissedAsync(date, goals, ens, startDate, td) ==
  IF ~isPast(date, td) THEN FALSE
  ELSE IF date < startDate THEN FALSE
  ELSE ~isDayComplete(date, goals, ens)

\* computeDayStatuses(challenge, entries)
computeDayStatuses(challenge, ens, td) ==
  LET dates == getChallengeDates(challenge.startDate, challenge.duration)
  IN [index \in 1..Len(dates) |->
        [date |-> dates[index],
         dayNumber |-> index,
         isToday |-> dates[index] = td,
         isPast |-> dates[index] < td,
         isFuture |-> dates[index] > td,
         completedGoals |-> Len(completedOn(dates[index], ens)),
         totalGoals |-> Cardinality(challenge.goals),
         isComplete |-> isDayComplete(dates[index], challenge.goals, ens),
         isMissed |-> isDayMissed(dates[index], challenge.goals, ens,
                                  challenge.startDate, td)]]

\* getDayStatuses(challenge)
getDayStatuses(challenge, ens, td) ==
  computeDayStatuses(challenge, getChallengeEntries(challenge, ens), td)

RECURSIVE streakBack(_, _)
\* The loop of calculateCurrentStreakFromStatuses from index i down to 1.
streakBack(statuses, i) ==
  IF i < 1 THEN 0
  ELSE IF statuses[i].isComplete THEN 1 + streakBack(statuses, i - 1)
  ELSE 0

\* A mutant of calculateCurrentStreakFromStatuses: the walk starts at today
\* whether today is complete or not.
calculateCurrentStreakFromToday(statuses, td) ==
  LET found == {i \in 1..Len(statuses) : statuses[i].date = td}
  IN IF found = {} THEN 0
     ELSE streakBack(statuses, CHOOSE i \in found : \A j \in found : i <= j)

calculateCurrentStreakFromStatuses(statuses, td) ==
  LET found == CHOOSE i \in 0..Len(statuses) :
                 IF \E j \in 1..Len(statuses) : statuses[j].date = td
                 THEN /\ i >= 1
                      /\ statuses[i].date = td
                      /\ \A j \in 1..(i - 1) : statuses[j].date # td
                 ELSE i = 0
      startIndex == IF found >= 1 /\ ~statuses[found].isComplete THEN found - 1 ELSE found
  IN IF startIndex < 1 THEN 0 ELSE streakBack(statuses, startIndex)

RECURSIVE bestFrom(_, _, _, _)
\* The loop of calculateBestStreakFromStatuses from index i on.
bestFrom(statuses, i, bestStreak, currentStreak) ==
  IF i > Len(statuses) THEN bestStreak
  ELSE IF statuses[i].isFuture THEN bestStreak
  ELSE IF statuses[i].isComplete
       THEN bestFrom(statuses, i + 1,
                     IF currentStreak + 1 > bestStreak THEN currentStreak + 1 ELSE bestStreak,
                     currentStreak + 1)
       ELSE bestFrom(statuses, i + 1, bestStreak, 0)

\* A mutant of calculateBestStreakFromStatuses: the loop stops at today.
calculateBestStreakBeforeToday(statuses) ==
  bestFrom([i \in 1..Len(statuses) |->
              [statuses[i] EXCEPT !.isFuture = ~statuses[i].isPast]], 1, 0, 0)

\* A mutant of calculateBestStreakFromStatuses: the loop runs over every day.
calculateBestStreakOfAllDays(statuses) ==
  bestFrom([i \in 1..Len(statuses) |-> [statuses[i] EXCEPT !.isFuture = FALSE]], 1, 0, 0)

calculateBestStreakFromStatuses(statuses) == bestFrom(statuses, 1, 0, 0)

Min(a, b) == IF a < b THEN a ELSE b
Max(a, b) == IF a > b THEN a ELSE b

\* Math.round((completedDays / activeDays) * 100): the nearest integer, a half
\* going up.
roundedPercent(completedDays, activeDays) ==
  (200 * completedDays + activeDays) \div (2 * activeDays)

\* The days getChallengeStats counts: statuses.filter(s => s.isPast ||
\* s.isToday).filter(s => s.isComplete).length.
completedDaysOf(statuses) ==
  Cardinality({i \in 1..Len(statuses) :
                 (statuses[i].isPast \/ statuses[i].isToday) /\ statuses[i].isComplete})

\* getChallengeStats(challenge)
getChallengeStats(challenge, ens, td, z) ==
  LET statuses == getDayStatuses(challenge, ens, td)
      currentDay == getDayNumber(z, challenge.startDate, td)
      completedDays == completedDaysOf(statuses)
      activeDays == Min(currentDay, challenge.duration)
  IN [currentStreak |-> calculateCurrentStreakFromStatuses(statuses, td),
      bestStreak |-> calculateBestStreakFromStatuses(statuses),
      totalDaysCompleted |-> completedDays,
      totalDays |-> challenge.duration,
      completionRate |-> IF activeDays > 0 THEN roundedPercent(completedDays, activeDays)
                         ELSE 0,
      currentDay |-> Min(currentDay, challenge.duration),
      daysRemaining |-> Max(0, challenge.duration - currentDay)]

\* The null checkStrictModeViolation returns.
Null == 0

\* checkStrictModeViolation(challenge), the challenge being the store's.
checkStrictModeViolation(challengeId) ==
  LET challenge == getChallenge(challenges, challengeId)
      statuses == getDayStatuses(challenge, entries, today)
      missedDay == findIndex(statuses, LAMBDA s : s.isMissed, 1)
      ended == endedChallenge(challenge, "failed", statuses[missedDay].dayNumber, Now)
  IN /\ challenge # NoRecord
     /\ IF challenge.strictMode /\ challenge.status = "active" /\ missedDay # 0
        THEN /\ Tick
             /\ challenges' = saveChallenge(challenges, ended)
             /\ currentChallengeId' = pointerAfterEnd(currentChallengeId, challengeId)
             /\ noteWrite("challenge", ended)
             /\ returned' = [op |-> "checkStrictModeViolation",
                             value |-> statuses[missedDay].dayNumber]
        ELSE /\ returned' = [op |-> "checkStrictModeViolation", value |-> Null]
             /\ UNCHANGED <<clock, challenges, currentChallengeId, inflight>>
     /\ UNCHANGED <<entries, today, zone, storageVars, hasAccount, otherPushes, mergeVars, pushVars,
                    serverTimes, lastSyncAt, remote, procVarsButHistory>>

\* checkChallengeCompletion(challenge), the challenge being the store's.
checkChallengeCompletion(challengeId) ==
  LET challenge == getChallenge(challenges, challengeId)
      stats == getChallengeStats(challenge, entries, today, zone)
      ended == endedChallenge(challenge, "completed", 0, Now)
  IN /\ challenge # NoRecord
     /\ IF stats.currentDay >= challenge.duration
           /\ stats.totalDaysCompleted = challenge.duration
        THEN /\ Tick
             /\ challenges' = saveChallenge(challenges, ended)
             /\ currentChallengeId' = pointerAfterEnd(currentChallengeId, challengeId)
             /\ noteWrite("challenge", ended)
             /\ returned' = [op |-> "checkChallengeCompletion", value |-> TRUE]
        ELSE /\ returned' = [op |-> "checkChallengeCompletion", value |-> FALSE]
             /\ UNCHANGED <<clock, challenges, currentChallengeId, inflight>>
     /\ UNCHANGED <<entries, today, zone, storageVars, hasAccount, otherPushes, mergeVars, pushVars,
                    serverTimes, lastSyncAt, remote, procVarsButHistory>>

\* A page asks for getChallengeStats(challenge).
readChallengeStats(challengeId) ==
  /\ getChallenge(challenges, challengeId) # NoRecord
  /\ returned' = [op |-> "getChallengeStats",
                  value |-> getChallengeStats(getChallenge(challenges, challengeId),
                                              entries, today, zone)]
  /\ UNCHANGED <<clock, localVars, today, zone, storageVars, hasAccount, otherPushes, mergeVars, pushVars,
                 serverTimes, lastSyncAt, remote, procVars>>

\* A page asks whether `date` was missed, of either module.
readDayMissed(challengeId, date) ==
  LET challenge == getChallenge(challenges, challengeId)
      ens == getChallengeEntries(challenge, entries)
  IN /\ challenge # NoRecord
     /\ returned' = [op |-> "isDayMissed",
                     date |-> date,
                     value |-> isDayMissed(date, challenge.goals, ens,
                                           challenge.startDate, today),
                     async |-> isDayMissedAsync(date, challenge.goals, ens,
                                                challenge.startDate, today),
                     isComplete |-> isDayComplete(date, challenge.goals, ens)]
     /\ UNCHANGED <<clock, localVars, today, zone, storageVars, hasAccount, otherPushes, mergeVars,
                    pushVars, serverTimes, lastSyncAt, remote, procVars>>

\* Midnight passes: getToday() returns the next date.
midnight ==
  /\ today + 1 \in Todays
  /\ today' = today + 1
  /\ UNCHANGED <<clock, localVars, zone, returned, storageVars, hasAccount, otherPushes, mergeVars,
                 pushVars, serverTimes, lastSyncAt, remote, procVars>>

\* The challenges drawn as inputs: c1, of one or two goals, started on
\* FirstDate, still active or abandoned at the first instant.
DayGoals == {{[id |-> "g1", name |-> "g"]},
             {[id |-> "g1", name |-> "g"], [id |-> "g1b", name |-> "h"]}}

DayStatusesOfChallenge == {"active", "abandoned"}

dayChallenge(duration, strictMode, status, goals) ==
  [id |-> "c1",
   name |-> "a",
   startDate |-> FirstDate,
   duration |-> duration,
   strictMode |-> strictMode,
   status |-> status,
   endDate |-> IF status = "active" THEN 0 ELSE DateOf(1),
   failedOnDay |-> 0,
   visibleToFriends |-> Undef,
   goals |-> goals,
   updatedAt |-> 1]

DayChallenges ==
  {dayChallenge(duration, strictMode, status, goals) :
     duration \in 1..MaxDuration, strictMode \in BOOLEAN,
     status \in DayStatusesOfChallenge, goals \in DayGoals}

\* What the user recorded on a day: nothing, the first goal unticked again,
\* the first goal only, or every goal.
DayKinds(goals) ==
  IF Cardinality(goals) = 1 THEN {"none", "undone", "full"}
  ELSE {"none", "undone", "partial", "full"}

dayEntries(date, kind, goals) ==
  IF kind = "none" THEN {}
  ELSE IF kind = "undone" THEN {newEntry(date, "g1", FALSE, Undef, 1)}
  ELSE IF kind = "partial" THEN {newEntry(date, "g1", TRUE, Undef, 1)}
  ELSE {newEntry(date, g.id, TRUE, Undef, 1) : g \in goals}

EntriesOfDays(challenge) ==
  {SetToSeq(UNION {dayEntries(challenge.startDate + (d - 1), kinds[d], challenge.goals) :
                     d \in 1..challenge.duration}) :
     kinds \in [1..challenge.duration -> DayKinds(challenge.goals)]}

InitDays ==
  /\ clock = 1
  /\ challenges \in {<<challenge>> : challenge \in DayChallenges}
  /\ entries \in EntriesOfDays(challenges[1])
  /\ currentChallengeId \in (IF challenges[1].status = "active" THEN {"c1"} ELSE {}) \cup {NullId}
  /\ today \in Todays
  /\ zone \in Zones
  /\ returned = NoReturn
  /\ hasAccount = FALSE
  /\ lastSyncAt = 0
  /\ remote = EmptyDB
  /\ otherPushes = 0
  /\ serverTimes = {}
  /\ InitStorageVars
  /\ InitProcs
  /\ InitMergeVars
  /\ InitPushVars

NextDays ==
  \/ checkStrictModeViolation("c1")
  \/ checkChallengeCompletion("c1")
  \/ readChallengeStats("c1")
  \/ midnight

SpecDays == InitDays /\ [][NextDays]_vars

\* isDayMissed alone: an active challenge in a zone of one offset.
InitMissed ==
  /\ InitDays
  /\ challenges[1].status = "active"
  /\ ~challenges[1].strictMode
  /\ currentChallengeId = "c1"
  /\ zone = NoZone

NextMissed ==
  \/ \E date \in Todays : readDayMissed("c1", date)
  \/ midnight

SpecMissed == InitMissed /\ [][NextMissed]_vars

\* A page computes the statuses of the challenge and keeps them.
readDayStatuses(challengeId) ==
  /\ getChallenge(challenges, challengeId) # NoRecord
  /\ returned' = [op |-> "getDayStatuses",
                  statuses |-> getDayStatuses(getChallenge(challenges, challengeId),
                                              entries, today),
                  computedOn |-> today]
  /\ UNCHANGED <<clock, localVars, today, zone, storageVars, hasAccount, otherPushes, mergeVars, pushVars,
                 serverTimes, lastSyncAt, remote, procVars>>

\* The page computes both streaks from the statuses it keeps; each function
\* reads getToday() when it runs.
readStreaks ==
  /\ returned.op \in {"getDayStatuses", "streaks"}
  /\ returned' = [op |-> "streaks",
                  statuses |-> returned.statuses,
                  computedOn |-> returned.computedOn,
                  today |-> today,
                  currentStreak |-> calculateCurrentStreakFromStatuses(returned.statuses, today),
                  bestStreak |-> calculateBestStreakFromStatuses(returned.statuses)]
  /\ UNCHANGED <<clock, localVars, today, zone, storageVars, hasAccount, otherPushes, mergeVars, pushVars,
                 serverTimes, lastSyncAt, remote, procVars>>

NextStreaks ==
  \/ readDayStatuses("c1")
  \/ readStreaks
  \/ midnight

SpecStreaks == InitMissed /\ [][NextStreaks]_vars

\* ------------------------------------- export and import of the store
\* The room the origin's localStorage may have left, in records.
MaxFree == 1

\* setMonth(getMonth() - 6): six months, in calendar dates of the model.
HalfYear == 1

\* The cache as one value (StorageData).
cacheNow == [challenges |-> challenges, entries |-> entries,
             currentChallengeId |-> currentChallengeId]

\* The length of JSON.stringify(data) grows with the records it holds.
sizeOf(data) == Len(data.challenges) + Len(data.entries)

\* localStorage.setItem(STORAGE_KEY, ...) replaces the stored value: it throws
\* QuotaExceededError when the value grows by more than the room left.
setItemThrows(data, old, room) == sizeOf(data) - sizeOf(old) > room

\* The cleanup of saveToStorage: active challenges and those ended after the
\* cutoff stay.
cleanedUp(data, now) ==
  [data EXCEPT !.challenges =
     SelectSeq(@, LAMBDA c :
       c.status = "active" \/ (c.endDate # 0 /\ c.endDate > DateOf(now) - HalfYear))]

\* saveToStorage() at instant `now`: the cache, the stored value and the room
\* left afterwards.
saveToStorage(data, old, room, now) ==
  IF ~setItemThrows(data, old, room)
  THEN [cache |-> data, stored |-> data, free |-> room - (sizeOf(data) - sizeOf(old))]
  ELSE IF ~setItemThrows(cleanedUp(data, now), old, room)
       THEN [cache |-> cleanedUp(data, now), stored |-> cleanedUp(data, now),
             free |-> room - (sizeOf(cleanedUp(data, now)) - sizeOf(old))]
       ELSE [cache |-> cleanedUp(data, now), stored |-> old, free |-> room]

\* The store after a save.
saved(r) ==
  /\ challenges' = r.cache.challenges
  /\ entries' = r.cache.entries
  /\ currentChallengeId' = r.cache.currentChallengeId
  /\ stored' = r.stored
  /\ free' = r.free
  /\ UNCHANGED memoryCache

\* What the actions of this section leave alone.
untouchedByStore == <<today, zone, hasAccount, otherPushes, mergeVars, pushVars, serverTimes,
                      lastSyncAt, remote, procVars>>

\* createChallenge with its two saves: saveChallenge, setCurrentChallengeId.
createChallengeSaved(id, name) ==
  LET r1 == saveToStorage([cacheNow EXCEPT
                             !.challenges = saveChallenge(@, newChallenge(id, name, Now))],
                          stored, free, Now)
      r2 == saveToStorage([r1.cache EXCEPT !.currentChallengeId = id],
                          r1.stored, r1.free, Now)
  IN /\ Tick
     /\ id \in UnusedIds
     /\ saved(r2)
     /\ returned' = [op |-> "createChallenge", threw |-> FALSE]
     /\ UNCHANGED untouchedByStore

\* endChallenge with its saves: saveChallenge, then setCurrentChallengeId(null)
\* when the pointer is the ended challenge.
endChallengeSaved(challengeId, status, failedOnDay) ==
  LET challenge == getChallenge(challenges, challengeId)
      r1 == saveToStorage([cacheNow EXCEPT
                             !.challenges = saveChallenge(@,
                                endedChallenge(challenge, status, failedOnDay, Now))],
                          stored, free, Now)
      r2 == IF r1.cache.currentChallengeId = challengeId
            THEN saveToStorage([r1.cache EXCEPT !.currentChallengeId = NullId],
                               r1.stored, r1.free, Now)
            ELSE r1
  IN /\ challenge # NoRecord
     /\ Tick
     /\ saved(r2)
     /\ returned' = [op |-> "endChallenge", threw |-> FALSE, at |-> Now,
                     challengeId |-> challengeId, status |-> status,
                     failedOnDay |-> failedOnDay]
     /\ UNCHANGED untouchedByStore

\* setEntry with its save.
setEntrySaved(date, goalId, completed) ==
  /\ Tick
  /\ saved(saveToStorage([cacheNow EXCEPT
                            !.entries = saveEntry(@, newEntry(date, goalId, completed,
                                                              Undef, Now))],
                         stored, free, Now))
  /\ returned' = [op |-> "setEntry", threw |-> FALSE]
  /\ UNCHANGED untouchedByStore

\* localStorage.ts: deleteChallenge(id), with its save: the challenge is
\* filtered out and the pointer cleared; the entries are left as they are.
deleteChallengeSaved(id) ==
  /\ getChallenge(challenges, id) # NoRecord
  /\ saved(saveToStorage([cacheNow EXCEPT
                            !.challenges = SelectSeq(@, LAMBDA c : c.id # id),
                            !.currentChallengeId = IF @ = id THEN NullId ELSE @],
                         stored, free, Now))
  /\ returned' = [op |-> "deleteChallenge", threw |-> FALSE]
  /\ UNCHANGED <<clock, untouchedByStore>>

\* Another key of the origin (the snapshot, the account) takes room.
otherKeyWritten ==
  /\ free > 0
  /\ free' = free - 1
  /\ UNCHANGED <<clock, localVars, stored, memoryCache, returned, untouchedByStore>>

\* The device is left alone for a while.
timePasses ==
  /\ Tick
  /\ UNCHANGED <<localVars, storageVars, returned, untouchedByStore>>

\* localStorage.ts: exportAllData() is the cache itself.
exportAllData == cacheNow

\* localStorage.ts: importAllData(data): the defaults, overlaid by the data.
importAllData(data) ==
  [challenges |-> IF "challenges" \in DOMAIN data THEN data.challenges ELSE <<>>,
   entries |-> IF "entries" \in DOMAIN data THEN data.entries ELSE <<>>,
   currentChallengeId |-> IF "currentChallengeId" \in DOMAIN data
                          THEN data.currentChallengeId ELSE NullId]

\* The properties a record may lack, and what reading a lacking one gives.
Optional == {"endDate", "failedOnDay", "visibleToFriends", "note"}
lacking(field) == IF field \in {"endDate", "failedOnDay"} THEN 0 ELSE Undef

\* JSON.stringify of a record: the properties whose value is undefined are
\* left out.
stringifyRecord(record) ==
  [field \in {f \in DOMAIN record : ~(f \in Optional /\ record[f] = lacking(f))} |->
     record[field]]

\* The record JSON.parse gives back, as the code reads it.
parseRecord(json, fields) ==
  [field \in fields |-> IF field \in DOMAIN json THEN json[field] ELSE lacking(field)]

ChallengeFields == DOMAIN newChallenge("c1", "a", 1)
EntryFields == DOMAIN newEntry("d1", "g1", TRUE, Undef, 1)

\* store.ts: exportData(): JSON.stringify of pointer, challenges, entries.
exportData ==
  [currentChallengeId |-> exportAllData.currentChallengeId,
   challenges |-> [i \in 1..Len(exportAllData.challenges) |->
                     stringifyRecord(exportAllData.challenges[i])],
   entries |-> [i \in 1..Len(exportAllData.entries) |->
                  stringifyRecord(exportAllData.entries[i])]]

\* store.ts: importData(json): JSON.parse, then storage.importAllData.
importData(json) ==
  importAllData(
    [currentChallengeId |-> json.currentChallengeId,
     challenges |-> [i \in 1..Len(json.challenges) |->
                       parseRecord(json.challenges[i], ChallengeFields)],
     entries |-> [i \in 1..Len(json.entries) |->
                    parseRecord(json.entries[i], EntryFields)]])

\* db.ts: an object store after put() of each record in turn: one record per
\* key, the last put of a key staying.
putAll(records, Key(_)) ==
  {records[i] : i \in {j \in 1..Len(records) :
                         \A k \in (j + 1)..Len(records) : Key(records[k]) # Key(records[j])}}

\* db.ts: exportAllData(): getAll() of both object stores and the setting.
dbExportAllData(db) ==
  [currentChallengeId |-> db.currentChallengeId,
   challenges |-> SetToSeq(db.challenges),
   entries |-> SetToSeq(db.entries)]

\* db.ts: importAllData(state): clearAllData(), then put of every record.
dbImportAllData(state) ==
  [currentChallengeId |-> state.currentChallengeId,
   challenges |-> putAll(state.challenges, LAMBDA c : c.id),
   entries |-> putAll(state.entries, LAMBDA e : <<e.date, e.goalId>>)]

\* The IndexedDB database holding the store: keyed object stores.
dbNow ==
  [currentChallengeId |-> currentChallengeId,
   challenges |-> putAll(challenges, LAMBDA c : c.id),
   entries |-> putAll(entries, LAMBDA e : <<e.date, e.goalId>>)]

\* storage.importAllData(storage.exportAllData()), with its save.
importExported ==
  LET throws == setItemThrows(importAllData(exportAllData), stored, free)
      r == saveToStorage(importAllData(exportAllData), stored, free, Now)
  IN /\ IF throws THEN Tick ELSE UNCHANGED clock
     /\ saved(r)
     /\ returned' = [op |-> "importAllData", threw |-> throws]
     /\ UNCHANGED untouchedByStore

\* importData(exportData()), with its save.
importDataExported ==
  LET throws == setItemThrows(importData(exportData), stored, free)
      r == saveToStorage(importData(exportData), stored, free, Now)
  IN /\ IF throws THEN Tick ELSE UNCHANGED clock
     /\ saved(r)
     /\ returned' = [op |-> "importData", threw |-> throws]
     /\ UNCHANGED untouchedByStore

\* db.importAllData(await db.exportAllData()) on the IndexedDB database.
dbImportExported ==
  LET db == dbImportAllData(dbExportAllData(dbNow))
  IN /\ challenges' = SetToSeq(db.challenges)
     /\ entries' = SetToSeq(db.entries)
     /\ currentChallengeId' = db.currentChallengeId
     /\ returned' = [op |-> "dbImportAllData", threw |-> FALSE]
     /\ UNCHANGED <<clock, storageVars, untouchedByStore>>

\* The snapshots a user imports: a backup holding a challenge that ended on
\* the first day, and one holding an active challenge with an entry.
Snapshots ==
  {[currentChallengeId |-> NullId,
    challenges |-> <<endedChallenge(newChallenge("c2", "a", 1), "completed", 0, 1)>>,
    entries |-> <<>>],
   [currentChallengeId |-> "c2",
    challenges |-> <<newChallenge("c2", "b", 1)>>,
    entries |-> <<newEntry("d1", "g2", TRUE, Undef, 1)>>]}

\* storage.importAllData(data) of a backup, with its save: the cache is
\* replaced before setItem is tried, and a failed setItem is swallowed.
importSnapshot(data) ==
  LET throws == setItemThrows(importAllData(data), stored, free)
      r == saveToStorage(importAllData(data), stored, free, Now)
  IN /\ IF throws THEN Tick ELSE UNCHANGED clock
     /\ saved(r)
     /\ returned' = [op |-> "importAllData(data)", threw |-> throws,
                     persisted |-> r.stored = r.cache]
     /\ UNCHANGED untouchedByStore

\* db.importAllData(state) of a backup: clearAllData() commits in a
\* transaction of its own; the transaction of the puts then completes, or
\* aborts (tx.onerror, the promise rejects) and leaves the database cleared.
dbImportSnapshot(state, completes) ==
  LET db == IF completes THEN dbImportAllData(state)
            ELSE [currentChallengeId |-> NullId, challenges |-> {}, entries |-> {}]
  IN /\ challenges' = SetToSeq(db.challenges)
     /\ entries' = SetToSeq(db.entries)
     /\ currentChallengeId' = db.currentChallengeId
     /\ returned' = [op |-> "db.importAllData(state)", threw |-> ~completes,
                     persisted |-> TRUE]
     /\ UNCHANGED <<clock, storageVars, untouchedByStore>>

\* A fresh install whose origin has some room left.
InitStore ==
  /\ clock = 0
  /\ challenges = <<>>
  /\ entries = <<>>
  /\ currentChallengeId = NullId
  /\ stored = EmptyStore
  /\ free = MaxFree
  /\ memoryCache = EmptyCache
  /\ today = 0
  /\ zone = NoZone
  /\ returned = NoReturn
  /\ hasAccount = FALSE
  /\ lastSyncAt = 0
  /\ remote = EmptyDB
  /\ otherPushes = 0
  /\ serverTimes = {}
  /\ InitProcs
  /\ InitMergeVars
  /\ InitPushVars

NextStore ==
  \/ \E name \in Names : createChallengeSaved("c1", name)
  \/ \E status \in TerminalStatuses, failedOnDay \in {0, 1} :
       endChallengeSaved("c1", status, failedOnDay)
  \/ \E completed \in BOOLEAN : setEntrySaved("d1", "g1", completed)
  \/ \E id \in ChallengeIds : deleteChallengeSaved(id)
  \/ otherKeyWritten
  \/ timePasses
  \/ importExported
  \/ importDataExported
  \/ dbImportExported
  \/ \E data \in Snapshots : importSnapshot(data)
  \/ \E state \in Snapshots, completes \in BOOLEAN : dbImportSnapshot(state, completes)

SpecStore == InitStore /\ [][NextStore]_vars

\* ================================================================ claims
\* A record of the store is the version `record` of its key.
holdsChallenge(chs, record) == getChallenge(chs, record.id) = record
holdsEntry(ens, record) == getEntry(ens, record.date, record.goalId) = record

\* The remote has a row of the record's key carrying the record's updatedAt.
remoteHasChallenge(db, c) ==
  \E r \in db.challenges : r.id = c.id /\ r.updated_at = c.updatedAt
remoteHasEntry(db, e) ==
  \E r \in db.entries : r.goal_id = e.goalId /\ r.date = e.date /\ r.updated_at = e.updatedAt

\* C1: when the pull of performSync fails (error response or network error),
\* the invocation issues no push, leaves the challenges, the entries, the
\* current-challenge pointer and lastSyncAt as they were, and returns a
\* result with success = false and the error set.  Stated of the two steps
\* of such an invocation: the start and the resumption after the pull.
C1_PullFailureAborts ==
  [][\A p \in Procs :
       /\ (pc[p] = "idle" /\ pc'[p] = "pull")
            => UNCHANGED <<challenges, entries, currentChallengeId, lastSyncAt, remote>>
       /\ (pc[p] = "pullDone" /\ pc'[p] # "pullDone" /\ response[p].error # "")
            => /\ UNCHANGED <<challenges, entries, currentChallengeId, lastSyncAt, remote>>
               /\ pc'[p] = "idle"
               /\ pushBody'[p] = NoBody
               /\ result'[p].success = FALSE
               /\ result'[p].error = response[p].error
               /\ result'[p].error # ""]_vars

\* C1 witness: a performSync has returned the pull's network error while
\* the store holds a challenge it could have pushed.
C1_Witness ==
  /\ pc["p1"] = "idle"
  /\ result["p1"] = SyncResult(FALSE, <<0, 0>>, <<0, 0>>, "Network error")
  /\ Len(challenges) > 0

\* C2: when performSync pulled and merged but its push failed, the merged
\* records stay in the store and every challenge and entry selected for the
\* failed push is selected again by the next performSync: at the return,
\* each one that is still the store's version and that the remote has not
\* accepted passes the push filter under the watermark just stored.
C2_FailedPushRetried ==
  [][\A p \in Procs :
       (pc[p] = "pushDone" /\ pc'[p] = "idle" /\ response[p].error # "")
       => /\ UNCHANGED <<challenges, entries>>
          /\ \A i \in 1..Len(pushBody[p].challenges) :
               LET c == pushBody[p].challenges[i]
               IN (getChallenge(challenges', c.id) # NoRecord
                   /\ getChallenge(challenges', c.id).updatedAt = c.updatedAt
                   /\ ~remoteHasChallenge(remote', c))
                  => needsPush(c, lastSyncAt')
          /\ \A i \in 1..Len(pushBody[p].entries) :
               LET e == pushBody[p].entries[i]
               IN (getEntry(entries', e.date, e.goalId) # NoRecord
                   /\ getEntry(entries', e.date, e.goalId).updatedAt = e.updatedAt
                   /\ ~remoteHasEntry(remote', e))
                  => needsPush(e, lastSyncAt')]_vars

\* The local record a pulled record leaves in the store under the rule
\* "replace when there is no local record or the remote one is strictly
\* newer, keep the local one otherwise".
afterLastWriteWins(localRecord, remoteRecord, asLocal) ==
  IF localRecord = NoRecord THEN asLocal
  ELSE IF remoteRecord.updatedAt > localRecord.updatedAt THEN asLocal
  ELSE localRecord

olderOrSame(localRecord, b, asLocal) ==
  \/ localRecord = NoRecord
  \/ localRecord = asLocal
  \/ localRecord.updatedAt < b.updatedAt

challengeRows(db, id) == {r \in db.challenges : r.id = id}
entryRows(db, goalId, date) == {r \in db.entries : r.goal_id = goalId /\ r.date = date}

\* C5: the push handler replaces a stored row only when the pushed
\* updatedAt is strictly greater than the stored updated_at: a pushed
\* challenge or entry that is not newer than the row of its key leaves that
\* row unchanged.
C5_RemoteLastWriteWins ==
  /\ \A i \in 1..Len(lastPush.challenges) :
       LET c == lastPush.challenges[i]
       IN \A r \in challengeRows(remoteBefore, c.id) :
            c.updatedAt <= r.updated_at => r \in remote.challenges
  /\ \A i \in 1..Len(lastPush.entries) :
       LET e == lastPush.entries[i]
       IN \A r \in entryRows(remoteBefore, e.goalId, e.date) :
            e.updatedAt <= r.updated_at => r \in remote.entries

\* C6: pushing the same challenge or entry (same key, fields and updatedAt)
\* twice leaves exactly one row of that key, the row the first push left;
\* an entry has a row when the server holds its goal for the user.
C6_PushTwiceIsOnce ==
  repeatedPush
  => /\ \A i \in 1..Len(lastPush.challenges) :
          LET c == lastPush.challenges[i]
          IN /\ Cardinality(challengeRows(remote, c.id)) = 1
             /\ challengeRows(remote, c.id) = challengeRows(remoteBefore, c.id)
     /\ \A i \in 1..Len(lastPush.entries) :
          LET e == lastPush.entries[i]
          IN /\ entryRows(remote, e.goalId, e.date) = entryRows(remoteBefore, e.goalId, e.date)
             /\ Cardinality(entryRows(remote, e.goalId, e.date)) =
                  IF \E g \in remote.goals : g.id = e.goalId /\ g.user_id = User
                  THEN 1 ELSE 0

\* C6 witness: a request of one challenge and one entry was served twice,
\* at two server times, and the database holds a row of each.
C6_Witness ==
  /\ repeatedPush
  /\ clock = 2
  /\ Len(lastPush.challenges) = 1
  /\ Len(lastPush.entries) = 1
  /\ challengeRows(remote, "c1") # {}
  /\ entryRows(remote, "g1", "d1") # {}

\* The value is a SyncResult.
isSyncResult(r) ==
  /\ DOMAIN r = {"success", "pushed", "pulled", "error"}
  /\ r.success \in BOOLEAN
  /\ r.pushed \in Nat \X Nat
  /\ r.pulled \in Nat \X Nat
  /\ r.error \in {"", "Not logged in", "Network error", "Failed to fetch data",
                  "Sync failed", "QuotaExceededError"}

\* C11: every value performSync or tryRecoverFromCloud writes to lastSyncAt
\* is a timestamp a successful response of the server brought (the push's
\* syncedAt or the pull's serverTime), never one read from the device's
\* clock; when the push failed it is the serverTime of the successful pull.
C11_WatermarkFromServer ==
  [][/\ lastSyncAt' # lastSyncAt => lastSyncAt' \in {t.time : t \in serverTimes}
     /\ \A p \in Procs :
          (pc[p] = "pushDone" /\ pc'[p] = "idle" /\ result'[p].success = TRUE)
          => /\ lastSyncAt' \in {t.time : t \in serverTimes}
             /\ response[p].error # ""
                  => [from |-> "pull", time |-> lastSyncAt'] \in serverTimes]_vars

\* C11 witness: a performSync whose push failed has returned, and lastSyncAt
\* is the serverTime of its pull.
C11_Witness ==
  /\ pc["p1"] = "idle"
  /\ result["p1"] = SyncResult(TRUE, <<1, 0>>, <<0, 0>>, "")
  /\ lastSyncAt # 0
  /\ [from |-> "pull", time |-> lastSyncAt] \in serverTimes
  /\ \A t \in serverTimes : t.from # "push"

\* C12: when the push of performSync fails after a successful pull, the
\* result reports the failure (it differs from the result of a successful
\* push) and the merged records stay in the store.
C12_PushFailureReported ==
  [][\A p \in Procs :
       (pc[p] = "pushDone" /\ pc'[p] = "idle" /\ response[p].error # "")
       => /\ UNCHANGED <<challenges, entries>>
          /\ result'[p].success = FALSE \/ result'[p].error # ""]_vars

\* C13: performSync never rejects: whatever the account lookup, the pull,
\* the store, the push and the watermark update do, what it hands its
\* caller is a SyncResult.
C13_NeverRejects ==
  \A p \in Procs :
    \/ result[p] = NoResult
    \/ result[p] \in {[recovered |-> TRUE], [recovered |-> FALSE]}
    \/ isSyncResult(result[p])

\* C13 witness: the server took the device's push, a statement threw after
\* it (the row of c1 is the device's own) and performSync returned
\* the failure the catch builds, the watermark left as it was.
C13_Witness ==
  /\ pc["p1"] = "idle"
  /\ result["p1"] = SyncResult(FALSE, <<0, 0>>, <<0, 0>>, "QuotaExceededError")
  /\ lastSyncAt = 0
  /\ Len(challenges) > 0
  /\ \E r \in remote.challenges : r.id = "c1" /\ r.name = "a"

\* The selection the push of performSync is to make of a store.
selectedForPush(record, lastSync) ==
  lastSync = 0 \/ record.updatedAt > lastSync

\* C14: the push set is computed from the store as it is after the merge and
\* is exactly the challenges and the entries whose updatedAt is strictly
\* greater than lastSyncAt, all of them when lastSyncAt is absent.
C14_PushSetIsNewerThanWatermark ==
  [][\A p \in Procs :
       (pc[p] = "pullDone" /\ pc'[p] = "push")
       => /\ {<<c.id, c.updatedAt>> : c \in Range(pushBody'[p].challenges)}
               = {<<c.id, c.updatedAt>> :
                    c \in {x \in Range(challenges') : selectedForPush(x, since[p])}}
          /\ {<<e.goalId, e.date, e.updatedAt>> : e \in Range(pushBody'[p].entries)}
               = {<<e.goalId, e.date, e.updatedAt>> :
                    e \in {x \in Range(entries') : selectedForPush(x, since[p])}}]_vars

\* The step is a call of `op`: it returned a value or wrote the challenges.
calls(op) ==
  /\ returned'.op = op
  /\ returned.op # op \/ returned' # returned \/ challenges' # challenges

\* The day numbers of the missed days of a challenge: the date is before
\* today and no entry of the challenge's goals on it is completed.
missedDayNumbers(challenge, ens, td) ==
  {d \in 1..challenge.duration :
     /\ challenge.startDate + (d - 1) < td
     /\ ~\E i \in 1..Len(ens) :
           /\ ens[i].date = challenge.startDate + (d - 1)
           /\ ens[i].goalId \in {g.id : g \in challenge.goals}
           /\ ens[i].completed}

Least(S) == CHOOSE d \in S : \A e \in S : d <= e

\* C15: checkStrictModeViolation returns null and changes nothing unless the
\* challenge is strict and active and some day is missed; then it returns the
\* day number of the first missed day, the challenge is 'failed' with that
\* failedOnDay, and the pointer is cleared if it pointed at the challenge.
C15_StrictModeViolation ==
  [][calls("checkStrictModeViolation") =>
       LET challenge == getChallenge(challenges, "c1")
           missed == missedDayNumbers(challenge, entries, today)
       IN IF challenge.strictMode /\ challenge.status = "active" /\ missed # {}
          THEN /\ returned'.value = Least(missed)
               /\ getChallenge(challenges', "c1").status = "failed"
               /\ getChallenge(challenges', "c1").failedOnDay = Least(missed)
               /\ currentChallengeId' =
                    (IF currentChallengeId = "c1" THEN NullId ELSE currentChallengeId)
               /\ entries' = entries
          ELSE /\ returned'.value = Null
               /\ UNCHANGED <<challenges, entries, currentChallengeId>>]_vars

\* The scenario: duration 3, one goal, day 1 completed, day 2 without an
\* entry, day 3 is today and completed; the call returned 2.
C15_Witness ==
  /\ returned.op = "checkStrictModeViolation"
  /\ returned.value = 2
  /\ today = 3
  /\ challenges[1].duration = 3
  /\ Cardinality(challenges[1].goals) = 1
  /\ challenges[1].status = "failed"
  /\ challenges[1].failedOnDay = 2
  /\ currentChallengeId = NullId
  /\ Range(entries) = {newEntry(1, "g1", TRUE, Undef, 1), newEntry(3, "g1", TRUE, Undef, 1)}


\* Every goal of the challenge has a completed entry on each of its days.
everyDayComplete(challenge, ens) ==
  \A d \in 1..challenge.duration : \A g \in challenge.goals :
    \E i \in 1..Len(ens) :
      /\ ens[i].date = challenge.startDate + (d - 1)
      /\ ens[i].goalId = g.id
      /\ ens[i].completed

\* C16: checkChallengeCompletion completes a challenge only from 'active', and
\* exactly when the current day number is at least the duration and every day
\* is complete; otherwise it returns false and leaves challenge and pointer.
C16_CompletionOnlyFromActive ==
  [][calls("checkChallengeCompletion") =>
       LET challenge == getChallenge(challenges, "c1")
       IN IF /\ challenge.status = "active"
             /\ getDayNumber(zone, challenge.startDate, today) >= challenge.duration
             /\ everyDayComplete(challenge, entries)
          THEN /\ returned'.value = TRUE
               /\ getChallenge(challenges', "c1").status = "completed"
          ELSE /\ returned'.value = FALSE
               /\ UNCHANGED <<challenges, currentChallengeId>>]_vars

\* No entry of the challenge's goals on the date is completed.
noneCompleted(challenge, ens, date) ==
  ~\E i \in 1..Len(ens) :
      /\ ens[i].date = date
      /\ ens[i].goalId \in {g.id : g \in challenge.goals}
      /\ ens[i].completed

\* C17: isDayMissed, of either module, is false for today, a future date and
\* a date before startDate; for a past date from startDate on it is true
\* exactly when the day has no completed entry, so a partial day is not missed.
C17_MissedIsNothingCompleted ==
  [][calls("isDayMissed") =>
       LET challenge == getChallenge(challenges, "c1")
           missed == /\ returned'.date < today
                     /\ returned'.date >= challenge.startDate
                     /\ noneCompleted(challenge, entries, returned'.date)
       IN /\ returned'.value = missed
          /\ returned'.async = missed]_vars

\* C18: the best streak of a status sequence is at least its current streak,
\* when the statuses were computed on the day the streaks are computed on.
C18_BestAtLeastCurrent ==
  (returned.op = "streaks" /\ returned.computedOn = returned.today)
    => returned.bestStreak >= returned.currentStreak

\* Statuses of today: the last two days complete, both streaks are 2.
C18_Witness ==
  /\ returned.op = "streaks"
  /\ returned.computedOn = returned.today
  /\ Len(returned.statuses) = 3
  /\ returned.today = 3
  /\ ~returned.statuses[1].isComplete
  /\ returned.currentStreak = 2
  /\ returned.bestStreak = 2

\* C18 as stated, for any status sequence the page may hold: the best streak
\* is at least the current streak.
C18_AnySequence ==
  returned.op = "streaks" => returned.bestStreak >= returned.currentStreak

\* The complete days of the challenge that are past or today.
completeDaysSoFar(challenge, ens, td) ==
  {d \in 1..challenge.duration :
     /\ challenge.startDate + (d - 1) <= td
     /\ \A g \in challenge.goals :
          \E i \in 1..Len(ens) :
            /\ ens[i].date = challenge.startDate + (d - 1)
            /\ ens[i].goalId = g.id
            /\ ens[i].completed}

\* round(100 * c / n) for n > 0: the nearest integer, a half going up.
nearestPercent(c, n) ==
  CHOOSE r \in 0..(100 * (c + 1)) : (2 * r - 1) * n <= 200 * c /\ 200 * c < (2 * r + 1) * n

\* C19: getChallengeStats returns completionRate = round(100 * c / min(current
\* day number, duration)), c the complete days that are past or today, 0 when
\* that minimum is not positive, and always a value from 0 to 100.
C19_CompletionRate ==
  [][calls("getChallengeStats") =>
       LET challenge == getChallenge(challenges, "c1")
           c == Cardinality(completeDaysSoFar(challenge, entries, today))
           n == Min(getDayNumber(zone, challenge.startDate, today), challenge.duration)
       IN /\ returned'.value.completionRate = (IF n <= 0 THEN 0 ELSE nearestPercent(c, n))
          /\ returned'.value.completionRate \in 0..100]_vars

\* The calls that import what they export.
RoundTrips == {"importAllData", "importData", "dbImportAllData"}

\* C20: importing what was just exported leaves the store with the same set
\* of challenges, the same set of entries and the same pointer.
C20_ImportExportRoundTrip ==
  [][\A op \in RoundTrips :
       (/\ returned'.op = op
        /\ returned.op # op \/ returned' # returned \/ localVars' # localVars) =>
         /\ Range(challenges') = Range(challenges)
         /\ Range(entries') = Range(entries)
         /\ currentChallengeId' = currentChallengeId]_vars

\* The calls that import a backup.
Imports == {"importAllData(data)", "db.importAllData(state)"}

\* C21: importAllData is atomic: when it has finished the store holds exactly
\* the imported snapshot, or, when a step of the import failed, exactly what
\* it held before the call.
C21_ImportIsAtomic ==
  [][\A op \in Imports :
       (/\ returned'.op = op
        /\ returned.op # op \/ returned' # returned \/ localVars' # localVars) =>
         \/ \E data \in Snapshots : ~returned'.threw /\ cacheNow' = importAllData(data)
         \/ returned'.threw /\ cacheNow' = cacheNow]_vars

\* The entry's goal is a goal of a challenge of the store.
hasChallenge(chs, entry) ==
  \E c \in Range(chs) : \E g \in c.goals : g.id = entry.goalId

\* C22: a completed store operation leaves no entry whose goalId belongs to
\* no challenge of the local store (the entries a check-in writes are for a
\* goal of a stored challenge).
C22_EntriesHaveChallenge ==
  [][(/\ \A e \in Range(entries) : hasChallenge(challenges, e)
      /\ returned'.op = "setEntry" =>
           \A e \in Range(entries') \ Range(entries) : hasChallenge(challenges, e)) =>
       \A e \in Range(entries') : hasChallenge(challenges', e)]_vars

\* The single-record writes of the store, by the storage call they end with.
SingleWrites == {"createChallenge", "endChallenge", "setEntry"}

\* C23: when a single-record write has returned normally, localStorage holds
\* what the getters return.
C23_WriteIsDurable ==
  (returned.op \in SingleWrites /\ ~returned.threw) => stored = cacheNow

\* C24: endChallenge(id, status, failedOnDay) on a stored challenge sets its
\* status, its endDate (today) and updatedAt (now), its failedOnDay when one
\* is given, clears the pointer exactly when it was this challenge, and leaves
\* the other challenges and the entries as they were.
C24_EndChallengeFrame ==
  [][(returned'.op = "endChallenge" /\ returned'.at = clock' /\ clock' # clock) =>
       LET id == returned'.challengeId
           before == getChallenge(challenges, id)
       IN /\ getChallenge(challenges', id) =
               [before EXCEPT !.status = returned'.status,
                              !.endDate = DateOf(clock'),
                              !.updatedAt = clock',
                              !.failedOnDay = IF returned'.failedOnDay # 0
                                              THEN returned'.failedOnDay ELSE @]
          /\ currentChallengeId' = (IF currentChallengeId = id THEN NullId
                                    ELSE currentChallengeId)
          /\ {c \in Range(challenges') : c.id # id} = {c \in Range(challenges) : c.id # id}
          /\ entries' = entries]_vars

\* The store's record of a pulled record's key carries the pulled content.
challengeAsPulled(chs, c) ==
  LET mine == getChallenge(chs, c.id)
  IN /\ mine # NoRecord
     /\ \A field \in {"name", "status", "endDate", "failedOnDay", "visibleToFriends",
                      "goals", "updatedAt"} : mine[field] = c[field]
entryAsPulled(ens, e) ==
  LET mine == getEntry(ens, e.date, e.goalId)
  IN /\ mine # NoRecord
     /\ \A field \in {"completed", "note", "updatedAt"} : mine[field] = e[field]

C26_PerformSyncTerminates ==
  \A p \in Procs : (pc[p] \in {"pull", "push"}) ~> (pc[p] = "idle")

\* C27: without a local account performSync skips the sync: it issues no
\* pull and no push, changes neither the store nor lastSyncAt, and its result
\* carries no error.
C27_NoAccountSkips ==
  [][\A p \in Procs :
       (/\ ~hasAccount
        /\ pc[p] = "idle"
        /\ result'[p] # result[p]
        /\ "success" \in DOMAIN result'[p])
         => /\ pc'[p] = "idle"
            /\ pushBody'[p] = NoBody
            /\ UNCHANGED <<localVars, lastSyncAt, remote>>
            /\ result'[p].error = ""]_vars

\* C28: a structurally invalid record of a batch is dropped and the valid
\* records of the batch are applied.  The push handler stores the valid
\* challenges, and the valid entries whose goal the user has on the server,
\* and no row for an invalid record; the merge of performSync leaves the
\* store's record of an invalid pulled record's key as it was and brings in
\* the valid pulled records.
C28_InvalidDropped ==
  [][/\ lastPush' # lastPush =>
          /\ \A i \in 1..Len(lastPush'.challenges) :
               LET c == lastPush'.challenges[i]
               IN IF isValidChallenge(c)
                  THEN \E r \in challengeRows(remote', c.id) : r.updated_at >= c.updatedAt
                  ELSE challengeRows(remote', c.id) = challengeRows(remote, c.id)
          /\ \A i \in 1..Len(lastPush'.entries) :
               LET e == lastPush'.entries[i]
               IN IF isValidEntry(e)
                  THEN (\E g \in remote'.goals : g.id = e.goalId /\ g.user_id = User)
                         => \E r \in entryRows(remote', e.goalId, e.date) :
                              r.updated_at >= e.updatedAt
                  ELSE entryRows(remote', e.goalId, e.date) = entryRows(remote, e.goalId, e.date)
     /\ \A serverData \in inbox \ inbox' :
          /\ \A i \in 1..Len(serverData.challenges) :
               LET c == serverData.challenges[i]
               IN IF isValidChallenge(c)
                  THEN /\ getChallenge(challenges', c.id) # NoRecord
                       /\ getChallenge(challenges', c.id).updatedAt >= c.updatedAt
                  ELSE getChallenge(challenges', c.id) = getChallenge(challenges, c.id)
          /\ \A i \in 1..Len(serverData.entries) :
               LET e == serverData.entries[i]
               IN IF isValidEntry(e)
                  THEN /\ getEntry(entries', e.date, e.goalId) # NoRecord
                       /\ getEntry(entries', e.date, e.goalId).updatedAt >= e.updatedAt
                  ELSE getEntry(entries', e.date, e.goalId) = getEntry(entries, e.date, e.goalId)]_vars

\* C29: the local store holds at most one entry per (date, goalId), whatever
\* setEntry, toggleEntry, updateEntryNote, the merges of performSync and
\* tryRecoverFromCloud have done: a write of a stored pair replaces its entry.
C29_OneEntryPerKey ==
  \A i, j \in 1..Len(entries) :
    (entries[i].date = entries[j].date /\ entries[i].goalId = entries[j].goalId) => i = j

\* C29 witness: the entries of both goals are stored, the one of g1 written
\* a second time, by updateEntryNote, at the third instant.
C29_Witness ==
  /\ Len(entries) = 2
  /\ \E e \in Range(entries) :
       e.goalId = "g1" /\ e.note = "n" /\ ~e.completed /\ e.updatedAt = 3

\* C30: the updatedAt stored for a challenge id or an entry key never
\* decreases, over the local writes and the merges of performSync.
C30_UpdatedAtNeverDecreases ==
  [][/\ \A c \in Range(challenges) : \A d \in Range(challenges') :
          d.id = c.id => d.updatedAt >= c.updatedAt
     /\ \A e \in Range(entries) : \A f \in Range(entries') :
          (f.date = e.date /\ f.goalId = e.goalId) => f.updatedAt >= e.updatedAt]_vars

\* The calls of the progression functions the pages make.
ProgressionCalls == {"getChallengeStats", "checkStrictModeViolation",
                     "checkChallengeCompletion"}

\* C31: a call of a progression function leaves the challenges, the entries
\* and the current-challenge pointer of the store as they were.
C31_ProgressionNeverWrites ==
  [][\A op \in ProgressionCalls : calls(op) => UNCHANGED localVars]_vars

\* C32: a record another device pushed at a server time later than this
\* device's lastSyncAt is in the answer to the next successful pull of
\* performSync, whatever updatedAt it carries, and after the merge the local
\* copy is at least as new as what was pulled.
C32_LaterPushIsPulled ==
  [][\A p \in Procs :
       /\ (pc[p] = "pull" /\ pc'[p] = "pullDone" /\ response'[p].error = "")
            => /\ \A r \in remote.challenges :
                    (r.user_id = User /\ r.created_at > since[p])
                      => \E i \in 1..Len(response'[p].data.challenges) :
                           response'[p].data.challenges[i].id = r.id
               /\ \A r \in remote.entries :
                    (r.user_id = User /\ r.created_at > since[p])
                      => \E i \in 1..Len(response'[p].data.entries) :
                           /\ response'[p].data.entries[i].goalId = r.goal_id
                           /\ response'[p].data.entries[i].date = r.date
       /\ (pc[p] = "pullDone" /\ pc'[p] = "push")
            => /\ \A i \in 1..Len(response[p].data.challenges) :
                    LET c == response[p].data.challenges[i]
                    IN /\ getChallenge(challenges', c.id) # NoRecord
                       /\ getChallenge(challenges', c.id).updatedAt >= c.updatedAt
               /\ \A i \in 1..Len(response[p].data.entries) :
                    LET e == response[p].data.entries[i]
                    IN /\ getEntry(entries', e.date, e.goalId) # NoRecord
                       /\ getEntry(entries', e.date, e.goalId).updatedAt >= e.updatedAt]_vars

\* --------------------------------------------- two users, one push handler
\* The challenges a user's client sends: either challenge, listing either
\* goal id under either name.
UserChallenges ==
  {[otherDeviceChallenge(id, "b", "active", 1) EXCEPT
      !.goals = {[id |-> goalId, name |-> name]}] :
     id \in ChallengeIds, goalId \in GoalIds, name \in {"g", "x"}}

\* The check-ins a user's client sends.
UserEntries ==
  {otherDeviceEntry(id, GoalIdOf(id), TRUE, "n", 1) : id \in ChallengeIds}

UserBodies ==
  {[challenges |-> <<c>>, entries |-> <<>>, lastSyncAt |-> 0] : c \in UserChallenges}
    \cup {[challenges |-> <<>>, entries |-> <<e>>, lastSyncAt |-> 0] : e \in UserEntries}

\* The authenticated user `user` posts `body` to /api/sync/push.
userPushes(user, body) ==
  /\ clock < MaxPushes
  /\ clock' = Now
  /\ remote' = onRequestPost(remote, user, body, Now).db
  /\ returned' = [op |-> "push", user |-> user, body |-> body,
                  accepted |-> ~onRequestPost(remote, user, body, Now).error]
  /\ UNCHANGED <<localVars, hasAccount, otherPushes, mergeVars, pushVars, lastSyncAt,
                 procVars, serverTimes, today, zone, storageVars>>

NextUsers == \E user \in Users, body \in UserBodies : userPushes(user, body)

SpecUsers == Init /\ [][NextUsers]_vars

\* The rows of a table that belong to other users than `user`.
rowsOfOthers(table, user) == {r \in table : r.user_id # user}

\* C33: a push by a user leaves every challenge, goal and entry row owned by
\* another user as it was.
C33_PushKeepsOthersRows ==
  [][\A user \in Users :
       (returned'.op = "push" /\ returned'.user = user /\ clock' # clock)
         => /\ rowsOfOthers(remote'.challenges, user) = rowsOfOthers(remote.challenges, user)
            /\ rowsOfOthers(remote'.goals, user) = rowsOfOthers(remote.goals, user)
            /\ rowsOfOthers(remote'.entries, user) = rowsOfOthers(remote.entries, user)]_vars

\* ------------------------------------- the cached store over IndexedDB
\* CACHE_TTL.entries and CACHE_TTL.currentChallenge, in clock units.
CacheTtl == 2

\* getCacheKey(namespace, key): key is "" when the caller gives none.
getCacheKey(namespace, key) == <<namespace, key>>

\* getFromCache: the cached data, or null when the key is absent or expired.
getFromCache(cache, now, namespace, key) ==
  LET entry == cache[getCacheKey(namespace, key)]
  IN IF entry = NoRecord THEN NoRecord
     ELSE IF now > entry.expiresAt THEN NoRecord
     ELSE [data |-> entry.data]

setInCache(cache, now, namespace, data, ttl, key) ==
  [cache EXCEPT ![getCacheKey(namespace, key)] = [data |-> data, expiresAt |-> now + ttl]]

\* invalidateCache(namespace, key): memoryCache.delete of that one key.
invalidateCache(cache, namespace, key) ==
  [cache EXCEPT ![getCacheKey(namespace, key)] = NoRecord]

\* invalidateNamespace(namespace): every key of the namespace is deleted.
invalidateNamespace(cache, namespace) ==
  [k \in CacheKeys |-> IF k[1] = namespace THEN NoRecord ELSE cache[k]]

invalidateUserDataCache(cache) ==
  invalidateNamespace(invalidateNamespace(cache, "entries"), "currentChallenge")

\* createChallenge of the cached store: db.saveChallenge, the setting, then
\* invalidateUserDataCache().
cachedCreateChallenge(id) ==
  /\ Tick
  /\ id \in UnusedIds
  /\ challenges' = saveChallenge(challenges, newChallenge(id, "a", Now))
  /\ currentChallengeId' = id
  /\ memoryCache' = invalidateUserDataCache(memoryCache)
  /\ returned' = [op |-> "createChallenge", id |-> id]
  /\ UNCHANGED <<entries, stored, free, untouchedByStore>>

\* setEntry of the cached store: db.saveEntry(entry), then
\* invalidateCache('entries') and invalidateCache('currentChallenge').
cachedSetEntry(date, goalId, completed) ==
  LET entry == newEntry(date, goalId, completed, Undef, Now)
  IN /\ Tick
     /\ entries' = saveEntry(entries, entry)
     /\ memoryCache' = invalidateCache(invalidateCache(memoryCache, "entries", ""),
                                       "currentChallenge", "")
     /\ returned' = [op |-> "setEntry", entry |-> entry]
     /\ UNCHANGED <<challenges, currentChallengeId, stored, free, untouchedByStore>>

\* getChallengeEntries(challengeId) of the cached store: withCache('entries',
\* CACHE_TTL.entries, fetcher, challengeId).
cachedGetChallengeEntries(challengeId) ==
  LET cached == getFromCache(memoryCache, clock, "entries", challengeId)
      challenge == getChallenge(challenges, challengeId)
      data == IF challenge = NoRecord THEN <<>>
              ELSE getChallengeEntries(challenge, entries)
  IN /\ IF cached # NoRecord
        THEN /\ returned' = [op |-> "getChallengeEntries", challengeId |-> challengeId,
                             value |-> cached.data]
             /\ UNCHANGED memoryCache
        ELSE /\ returned' = [op |-> "getChallengeEntries", challengeId |-> challengeId,
                             value |-> data]
             /\ memoryCache' = setInCache(memoryCache, clock, "entries", data,
                                          CacheTtl, challengeId)
     /\ UNCHANGED <<clock, localVars, stored, free, untouchedByStore>>

NextCache ==
  \/ \E id \in ChallengeIds : cachedCreateChallenge(id)
  \/ \E date \in Dates, goalId \in GoalIds, completed \in BOOLEAN :
       cachedSetEntry(date, goalId, completed)
  \/ \E id \in ChallengeIds : cachedGetChallengeEntries(id)
  \/ timePasses

SpecCache == Init /\ [][NextCache]_vars

\* C34: the first getChallengeEntries after a setEntry, for the challenge
\* that owns the goal, returns the entry setEntry wrote.
C34_ReadAfterWrite ==
  [][(/\ returned.op = "setEntry"
      /\ returned'.op = "getChallengeEntries"
      /\ getChallenge(challenges, returned'.challengeId) # NoRecord
      /\ returned.entry.goalId \in
           {g.id : g \in getChallenge(challenges, returned'.challengeId).goals})
       => returned.entry \in Range(returned'.value)]_vars

\* ------------------------------------------------- isDayComplete alone
\* The entries drawn as arguments: for each of two dates and each of three
\* goal ids (g2 is no goal of the challenge) no entry, an entry that is not
\* completed or a completed one.
CompleteDates == {FirstDate, FirstDate + 1}
CompleteGoalIds == {"g1", "g1b", "g2"}

EntriesOfKeys ==
  {SetToSeq({newEntry(k[1], k[2], kinds[k] = "done", Undef, 1) :
               k \in {x \in CompleteDates \X CompleteGoalIds : kinds[x] # "none"}}) :
     kinds \in [CompleteDates \X CompleteGoalIds -> {"none", "undone", "done"}]}

InitComplete ==
  /\ clock = 1
  /\ challenges \in {<<dayChallenge(1, FALSE, "active", goals)>> : goals \in DayGoals}
  /\ entries \in EntriesOfKeys
  /\ currentChallengeId = "c1"
  /\ today = FirstDate
  /\ zone = NoZone
  /\ returned = NoReturn
  /\ hasAccount = FALSE
  /\ lastSyncAt = 0
  /\ remote = EmptyDB
  /\ otherPushes = 0
  /\ serverTimes = {}
  /\ InitStorageVars
  /\ InitProcs
  /\ InitMergeVars
  /\ InitPushVars

\* A page asks isDayComplete(date, challenge.goals, entries).
readDayComplete(challengeId, date) ==
  LET challenge == getChallenge(challenges, challengeId)
  IN /\ challenge # NoRecord
     /\ returned' = [op |-> "isDayComplete",
                     date |-> date,
                     goals |-> challenge.goals,
                     value |-> isDayComplete(date, challenge.goals, entries)]
     /\ UNCHANGED <<clock, localVars, today, zone, storageVars, hasAccount, otherPushes, mergeVars,
                    pushVars, serverTimes, lastSyncAt, remote, procVars>>

NextComplete == \E date \in CompleteDates : readDayComplete("c1", date)

SpecComplete == InitComplete /\ [][NextComplete]_vars

\* C35: isDayComplete(date, goals, entries) is true exactly when every goal
\* of goals has an entry of that date with completed = true.
C35_DayCompleteIffEveryGoal ==
  returned.op = "isDayComplete"
    => (returned.value
          <=> \A g \in returned.goals :
                \E i \in 1..Len(entries) :
                  /\ entries[i].goalId = g.id
                  /\ entries[i].date = returned.date
                  /\ entries[i].completed)

\* The day is not complete though as many entries of the date are completed
\* as there are goals (one of them of a goal the challenge does not have),
\* and every goal is completed on the other date.
C35_Witness ==
  /\ returned.op = "isDayComplete"
  /\ ~returned.value
  /\ Cardinality(returned.goals) = 2
  /\ Len(completedOn(returned.date, entries)) >= 2
  /\ \E i \in 1..Len(entries) :
       entries[i].goalId = "g2" /\ entries[i].date = returned.date /\ entries[i].completed
  /\ \A g \in returned.goals :
       \E i \in 1..Len(entries) :
         entries[i].goalId = g.id /\ entries[i].date # returned.date /\ entries[i].completed

\* The indexes of the statuses whose date is `td`.
indexesOf(statuses, td) == {i \in 1..Len(statuses) : statuses[i].date = td}

\* The index the backward walk starts at: today's, or the one before when
\* today is not complete (0: before the first day).
startOfWalk(statuses, td) ==
  LET i0 == CHOOSE i \in indexesOf(statuses, td) : \A j \in indexesOf(statuses, td) : i <= j
  IN IF statuses[i0].isComplete THEN i0 ELSE i0 - 1

\* Every day of from..to is complete.
allComplete(statuses, from, to) == \A j \in from..to : statuses[j].isComplete

\* C36: calculateCurrentStreakFromStatuses returns 0 when today is not among
\* the statuses or the start index is before the first day, and otherwise
\* the number of consecutive complete days from the start index backward,
\* the start being today's index or the one before when today is not complete.
C36_CurrentStreakWalksBack ==
  returned.op = "streaks"
    => LET s == returned.statuses
           td == returned.today
       IN IF indexesOf(s, td) = {} THEN returned.currentStreak = 0
          ELSE LET start == startOfWalk(s, td)
                   k == returned.currentStreak
               IN IF start < 1 THEN k = 0
                  ELSE /\ k \in 0..start
                       /\ allComplete(s, start - k + 1, start)
                       /\ k < start => ~s[start - k].isComplete

\* Today is the third day and not complete; the two days before are.
C36_Witness ==
  /\ returned.op = "streaks"
  /\ indexesOf(returned.statuses, returned.today) = {3}
  /\ ~returned.statuses[3].isComplete
  /\ returned.statuses[1].isComplete
  /\ returned.statuses[2].isComplete
  /\ returned.currentStreak = 2

\* The days before the first future day: 1..lastCounted.
lastCounted(statuses) ==
  LET future == {i \in 1..Len(statuses) : statuses[i].isFuture}
  IN IF future = {} THEN Len(statuses)
     ELSE (CHOOSE i \in future : \A j \in future : i <= j) - 1

\* Some run of k consecutive complete days lies within 1..n.
hasRun(statuses, n, k) ==
  \E from \in 1..(n - k + 1) : allComplete(statuses, from, from + k - 1)

\* C37: calculateBestStreakFromStatuses returns the length of the longest
\* run of consecutive complete days among the days before the first future day.
C37_BestStreakBeforeFuture ==
  returned.op = "streaks"
    => LET s == returned.statuses
           n == lastCounted(s)
           k == returned.bestStreak
       IN /\ k \in 0..n
          /\ k > 0 => hasRun(s, n, k)
          /\ k < n => ~hasRun(s, n, k + 1)

\* The first day is complete and counted; the second and third are future
\* days that are complete too, and the best streak is 1.
C37_Witness ==
  /\ returned.op = "streaks"
  /\ Len(returned.statuses) = 3
  /\ lastCounted(returned.statuses) = 1
  /\ returned.statuses[1].isComplete
  /\ returned.statuses[2].isComplete
  /\ returned.statuses[3].isComplete
  /\ returned.bestStreak = 1

\* C38: the stored lastSyncAt never decreases, whatever performSync and
\* tryRecoverFromCloud calls run and however they overlap (the server's
\* clock never goes back).
C38_LastSyncAtNeverDecreases == [][lastSyncAt' >= lastSyncAt]_vars

\* The challenges a pull with no `since` returns to `user` for the id.
fullPullOf(db, user, id) ==
  {c \in Range(onRequestGet(db, user, 0, clock).challenges) : c.id = id}

\* C39: after an accepted push of a challenge, a pull with no `since` returns
\* for its id one challenge whose status, dates, flags and goal list are the
\* pushed ones.
C39_PushPullRoundTrip ==
  (returned.op = "push" /\ returned.accepted)
    => \A i \in 1..Len(returned.body.challenges) :
         LET pushed == returned.body.challenges[i]
             back == fullPullOf(remote, returned.user, pushed.id)
         IN /\ Cardinality(back) = 1
            /\ \A c \in back :
                 /\ c.status = pushed.status
                 /\ c.endDate = pushed.endDate
                 /\ c.failedOnDay = pushed.failedOnDay
                 /\ c.visibleToFriends = pushed.visibleToFriends
                 /\ c.goals = pushed.goals

\* C7: at most one performSync is between its start and its return.
C7_OneSyncInFlight == Cardinality({p \in Procs : pc[p] # "idle"}) <= 1

\* C8: a local write made while performSync is suspended at the pull or at
\* the push is not lost: the merge does not replace it by an older pulled
\* record, and at the return it is part of the push just made or newer than
\* the watermark performSync stores.
C8_InflightWriteKept ==
  [][\A p \in Procs :
       /\ (pc[p] = "pullDone" /\ pc'[p] = "push")
            => \A w \in inflight[p] :
                 IF w.kind = "challenge"
                 THEN holdsChallenge(challenges, w.record)
                      => getChallenge(challenges', w.record.id).updatedAt >= w.record.updatedAt
                 ELSE holdsEntry(entries, w.record)
                      => getEntry(entries', w.record.date, w.record.goalId).updatedAt
                           >= w.record.updatedAt
       /\ (pc[p] = "pushDone" /\ pc'[p] = "idle")
            => \A w \in inflight[p] :
                 IF w.kind = "challenge"
                 THEN holdsChallenge(challenges', w.record)
                      => \/ \E i \in 1..Len(pushBody[p].challenges) :
                              /\ pushBody[p].challenges[i].id = w.record.id
                              /\ pushBody[p].challenges[i].updatedAt = w.record.updatedAt
                         \/ w.record.updatedAt > lastSyncAt'
                 ELSE holdsEntry(entries', w.record)
                      => \/ \E i \in 1..Len(pushBody[p].entries) :
                              /\ pushBody[p].entries[i].goalId = w.record.goalId
                              /\ pushBody[p].entries[i].date = w.record.date
                              /\ pushBody[p].entries[i].updatedAt = w.record.updatedAt
                         \/ w.record.updatedAt > lastSyncAt']_vars

\* C9: the current-challenge pointer is null or the id of a challenge of the
\* store whose status is 'active'.
C9_PointerIsActive ==
  \/ currentChallengeId = NullId
  \/ /\ getChallenge(challenges, currentChallengeId) # NoRecord
     /\ getChallenge(challenges, currentChallengeId).status = "active"

\* C10: a challenge of the store whose status is completed, failed or
\* abandoned keeps that status in every step.
C10_TerminalIsFinal ==
  [][\A i \in 1..Len(challenges) :
       challenges[i].status \in TerminalStatuses
       => /\ getChallenge(challenges', challenges[i].id) # NoRecord
          /\ getChallenge(challenges', challenges[i].id).status = challenges[i].status]_vars

====
